---------------------------- MODULE Spec2Model ----------------------------
(***************************************************************************)
(* State-machine model of the social-listening pipeline:                   *)
(*   - passes_quick_filter, the confidence ladder (base_ingestion_agent)   *)
(*   - BaseIngestionAgent.run_quick_filter and the three-stage pipeline    *)
(*     of the ingestion agents' main()                                     *)
(*   - SentimentAnalyzer.analyze_batch, the bounded worker pool            *)
(*   - the gateway retry loops GeminiClient.generate, call_gemini_filter   *)
(*     and call_openai_filter                                              *)
(*                                                                         *)
(* Conventions.  A Python str is a non-empty sequence of words, the pieces *)
(* between single spaces; the empty str is <<"">>.  Confidences and        *)
(* thresholds are hundredths (0.95 is 95), LLM relevance scores are tenths   *)
(* (7.0 is 70), delays are seconds.                                        *)
(***************************************************************************)
EXTENDS Integers, Sequences, FiniteSets, TLC

VARIABLES
    \* ---- passes_quick_filter applied to one post
    post,             \* the post handed to passes_quick_filter
    verdict,          \* its return value, or NoVerdict before the call
    \* ---- BaseIngestionAgent.run_quick_filter and main()'s stages
    quick_filter,     \* self.quick_filter: "default" or "injected"
    threshold,        \* auto_accept_threshold
    posts,            \* the posts the iterable has yielded so far
    scores,           \* what self.quick_filter returned for each of them
    high_confidence,  \* list of <<post, reason>>
    needs_llm,        \* list of posts
    rejected,         \* counter
    callbacks,        \* observer callbacks invoked, in order
    supplied,         \* the observer callbacks the caller passed to run_quick_filter
    stage,            \* position of main(): "filter", "auto", "llm", "done"
    cursor,           \* index of the loop of the current stage
    payloads,         \* the list `payloads` local to the running stage
    posts_payload,    \* main()'s posts_payload
    llm_calls,        \* ids of the posts llm_callable was invoked with
    rate_limit_every, \* parameter of process_posts_with_llm
    pauses,           \* 1-based positions after which a rate-limit pause was taken
    api_key,          \* whether the credential (GEMINI_API_KEY, OPENAI_API_KEY) is set
    llm_results,      \* the llm_metadata run_llm_filter returned, in order
    suppress_exceptions, \* the suppress_exceptions argument of process_posts_with_llm
    raised,           \* the 1-based positions of needs_llm whose _process() raised
    \* ---- SentimentAnalyzer.analyze_batch
    items,            \* the input list
    submitted,        \* number of futures submitted so far
    task,             \* per index: "none", "queued", "running", "finished", "collected"
    calls,            \* per index, what llm_client.generate did: "none" (not
                      \* called or not back yet) or one of GatewayOutcomes
    future,           \* per index: what the future holds
    results,          \* the pre-sized result slots
    completed,        \* counter of the as_completed loop
    collected,        \* the indexes in the order as_completed yielded them
    writes,           \* per slot: number of assignments results[idx] = result
    batch_pc,         \* "submit", "collect", "returned", "raised"
    returned,         \* the list analyze_batch returned
    submit_at,        \* for each item, the time the loop had slept when it was submitted
    paused,           \* the time the submission loop has slept so far, in hundredths of a second
    \* ---- one gateway call
    gateway,          \* "GeminiClient.generate", "call_gemini_filter", "call_openai_filter"
    attempt,          \* loop variable of range(max_retries)
    retry_delay,      \* the current delay
    requests,         \* what each HTTP request sent so far met, in order
    sleeps,           \* the time.sleep calls: [after |-> requests sent, seconds |-> d]
    outcome,          \* "pending", "returned", "raised"
    error,            \* the response the raised error describes, "" if none
    \* ---- SentimentAnalyzer._validate_and_fix_response on one value
    response,         \* the value handed to _validate_and_fix_response
    repaired,         \* what it returned, or NotCalled
    again,            \* what it returned for `repaired`, or NotCalled
    \* ---- SentimentAnalyzer.analyze_text on one text
    text_item,        \* the arguments text and metadata
    raw_output,       \* what llm_client.generate(prompt) did
    analyzed,         \* [raised, result] once analyze_text has ended, else NotCalled
    \* ---- RedditDataProcessor.process_all
    objects,          \* the item dicts, by object identity
    input_items,      \* the list the caller passes: references into objects
    limit,            \* the limit argument, 0 for None
    before,           \* the item dicts as they were when process_all was called
    processed_data,   \* self.processed_data: references into objects
    batch_start,      \* the loop variable i of process_all
    process_pc,       \* "loop", "returned", or "idle"
    \* ---- RedditDataProcessor.calculate_field_distributions
    analysed,         \* self.processed_data as the aggregation reads it: item dicts
    distributions,    \* what calculate_field_distributions returned, else NotCalled
    \* ---- RedditDataProcessor.extract_posts_and_comments
    raw_data,         \* self.raw_data["posts"]
    deduplicated_ids, \* self.deduplicated_ids
    emitted,          \* the items every call so far has returned, call after call
    extract_calls     \* number of calls of extract_posts_and_comments so far

scoreVars == <<post, verdict>>
ingestVars == <<quick_filter, threshold, posts, scores, high_confidence, needs_llm,
                rejected, callbacks, supplied, stage, cursor, payloads,
                posts_payload,
                llm_calls, rate_limit_every, pauses, api_key, llm_results,
                suppress_exceptions, raised>>
batchVars == <<items, submitted, task, calls, future, results, completed, collected, writes,
               batch_pc, returned, submit_at, paused>>
gwVars == <<gateway, attempt, retry_delay, requests, sleeps, outcome, error>>
repairVars == <<response, repaired, again>>
analyzeVars == <<text_item, raw_output, analyzed>>
dataVars == <<analysed, distributions>>
extractVars == <<raw_data, deduplicated_ids, emitted, extract_calls>>
processVars == <<objects, input_items, limit, before, processed_data, batch_start, process_pc>>
vars == <<scoreVars, ingestVars, batchVars, gwVars, repairVars, analyzeVars, processVars, dataVars, extractVars>>

-----------------------------------------------------------------------------
(* Bounds of the model *)
MaxTitleWords == 2
MaxBodyWords == 2
MaxPosts == 3
MaxItems == 3
MaxProcessed == 2
MaxRawPosts == 2
MaxComments == 2
MaxExtractCalls == 2

-----------------------------------------------------------------------------
(* Strings *)

\* The words posts are built from.  "x*141" stands for a run of 141 letters x.
Vocabulary == {"taboola", "Taboola", "realize", "Realize", "i", "ads",
               "widget", "revenue", "cpm", "x*141"}

Subreddits == {"marketing", "SEO", "hackernews"}

\* len() of one word
WordLen(w) ==
    CASE w = "" -> 0
      [] w = "i" -> 1
      [] w \in {"ads", "cpm", "SEO", "seo"} -> 3
      [] w = "widget" -> 6
      [] w \in {"taboola", "Taboola", "realize", "Realize", "revenue"} -> 7
      [] w = "marketing" -> 9
      [] w = "hackernews" -> 10
      [] w = "x*141" -> 141

RECURSIVE SumLen(_)
SumLen(s) == IF s = <<>> THEN 0 ELSE WordLen(Head(s)) + SumLen(Tail(s))

\* len() of a str: its words and the single spaces between them
StrLen(s) == SumLen(s) + (Len(s) - 1)

\* str.lower() of one word, and of a str
LowerWord(w) ==
    CASE w = "Taboola" -> "taboola"
      [] w = "Realize" -> "realize"
      [] w = "SEO" -> "seo"
      [] OTHER -> w

Lower(s) == [i \in 1..Len(s) |-> LowerWord(s[i])]

\* Pairs <<w, p>> of a vocabulary word w (lowercased) and a word p of one of
\* the filter's phrases such that p is a proper prefix, suffix or infix of w.
ProperPrefix == {<<"ads", "ad">>}
ProperSuffix == {}
ProperInfix == {}

StartsWith(w, p) == w = p \/ <<w, p>> \in ProperPrefix
EndsWith(w, p) == w = p \/ <<w, p>> \in ProperSuffix
HasInfix(w, p) == StartsWith(w, p) \/ EndsWith(w, p) \/ <<w, p>> \in ProperInfix

\* Python's `phrase in content` on strs: the phrase's first word ends a word
\* of content, its last word starts one, the words between are equal.
In(phrase, content) ==
    LET k == Len(phrase) IN
    \E j \in 1..(Len(content) - k + 1) :
        IF k = 1
        THEN HasInfix(content[j], phrase[1])
        ELSE /\ EndsWith(content[j], phrase[1])
             /\ \A i \in 2..(k - 1) : content[j + i - 1] = phrase[i]
             /\ StartsWith(content[j + k - 1], phrase[k])


-----------------------------------------------------------------------------
(* passes_quick_filter *)

generic_phrases == <<
    <<"i", "realize">>, <<"i", "realized">>, <<"just", "realized">>,
    <<"didn't", "realize">>, <<"don't", "realize">>, <<"never", "realized">>,
    <<"finally", "realized">>, <<"suddenly", "realized">>, <<"now", "realize">>,
    <<"people", "realize">>, <<"you", "realize">>, <<"we", "realize">>,
    <<"they", "realize">> >>

strong_indicators == <<
    <<"taboola", "realize">>, <<"realize", "by", "taboola">>,
    <<"taboola's", "realize">>, <<"taboola", "platform">>,
    <<"taboola", "widget">>, <<"taboola", "advertising">>, <<"taboola", "ad">>,
    <<"taboola", "sponsored">>, <<"work", "at", "taboola">>,
    <<"working", "for", "taboola">>, <<"taboola", "sucks">>,
    <<"taboola", "spam">>, <<"block", "taboola">>, <<"remove", "taboola">>,
    <<"taboola", "monetization">>, <<"taboola", "revenue">> >>

relevant_terms == <<
    <<"advertising">>, <<"ad", "network">>, <<"sponsored">>, <<"native", "ad">>,
    <<"monetize">>, <<"monetization">>, <<"revenue">>, <<"publisher">>,
    <<"cpc">>, <<"cpm">>, <<"impressions">>, <<"clicks">>, <<"outbrain">>,
    <<"revcontent">>, <<"mgid">>, <<"widget">>, <<"recommendation">>,
    <<"content", "discovery">>, <<"banner">>, <<"display">>, <<"campaign">> >>

relevant_subs == {"advertising", "adops", "marketing", "digital_marketing",
                  "webdev", "web_design", "blogging", "contentcreation",
                  "entrepreneur", "smallbusiness", "ppc", "seo"}

\* content = f"{title_lower} {body_lower}"
Content(p) == Lower(p.title) \o Lower(p.selftext)

\* `for phrase in phrases: if phrase in content: return ...` returns at the
\* first phrase, in list order, that content contains
AnyIn(phrases, content) == \E i \in 1..Len(phrases) : In(phrases[i], content)

FirstIn(phrases, content) ==
    phrases[CHOOSE i \in 1..Len(phrases) :
                /\ In(phrases[i], content)
                /\ \A j \in 1..(i - 1) : ~In(phrases[j], content)]

\* context_count = sum(1 for term in relevant_terms if term in content)
ContextCount(content) ==
    Cardinality({i \in 1..Len(relevant_terms) : In(relevant_terms[i], content)})

\* a returned (should_process, confidence, reason)
Verdict(accept, confidence, text, detail) ==
    [accept |-> accept, confidence |-> confidence,
     reason |-> [text |-> text, detail |-> detail]]

NoVerdict == Verdict(FALSE, 0, "", <<>>)

\* ContextVerdict with the thresholds one too low
ContextVerdict_shifted(context_count) ==
    IF context_count >= 2
    THEN Verdict(TRUE, 85, "Strong context", <<ToString(context_count)>>)
    ELSE IF context_count >= 1
    THEN Verdict(TRUE, 65, "Medium context", <<ToString(context_count)>>)
    ELSE Verdict(TRUE, 45, "Weak context", <<ToString(context_count)>>)

ContextVerdict(context_count) ==
    IF context_count >= 3
    THEN Verdict(TRUE, 85, "Strong context", <<ToString(context_count)>>)
    ELSE IF context_count >= 2
    THEN Verdict(TRUE, 65, "Medium context", <<ToString(context_count)>>)
    ELSE Verdict(TRUE, 45, "Weak context", <<ToString(context_count)>>)

\* the tail of the ladder, from the relevant-terms count on
LadderTail(p, content) ==
    IF ContextCount(content) >= 1
    THEN ContextVerdict(ContextCount(content))
    ELSE IF LowerWord(p.subreddit) \in relevant_subs
    THEN Verdict(TRUE, 60, "Relevant subreddit", <<p.subreddit>>)
    ELSE IF StrLen(content) > 150
    THEN Verdict(TRUE, 40, "Taboola mentioned with substantial content", <<>>)
    ELSE Verdict(FALSE, 20, "Insufficient relevance signals", <<>>)

\* passes_quick_filter with the strong-indicator loop moved above the
\* generic-phrase loop
passes_quick_filter_strong_first(p) ==
    LET content == Content(p) IN
    IF ~In(<<"taboola">>, content)
    THEN Verdict(FALSE, 0, "No Taboola mention", <<>>)
    ELSE IF AnyIn(strong_indicators, content)
    THEN Verdict(TRUE, 95, "Strong indicator", FirstIn(strong_indicators, content))
    ELSE IF AnyIn(generic_phrases, content)
    THEN Verdict(FALSE, 10, "Generic phrase", FirstIn(generic_phrases, content))
    ELSE LadderTail(p, content)

\* passes_quick_filter with the brand check moved below the generic-phrase loop
passes_quick_filter_generic_first(p) ==
    LET content == Content(p) IN
    IF AnyIn(generic_phrases, content)
    THEN Verdict(FALSE, 10, "Generic phrase", FirstIn(generic_phrases, content))
    ELSE IF ~In(<<"taboola">>, content)
    THEN Verdict(FALSE, 0, "No Taboola mention", <<>>)
    ELSE IF AnyIn(strong_indicators, content)
    THEN Verdict(TRUE, 95, "Strong indicator", FirstIn(strong_indicators, content))
    ELSE LadderTail(p, content)

passes_quick_filter(p) ==
    LET content == Content(p) IN
    IF ~In(<<"taboola">>, content)
    THEN Verdict(FALSE, 0, "No Taboola mention", <<>>)
    ELSE IF AnyIn(generic_phrases, content)
    THEN Verdict(FALSE, 10, "Generic phrase", FirstIn(generic_phrases, content))
    ELSE IF AnyIn(strong_indicators, content)
    THEN Verdict(TRUE, 95, "Strong indicator", FirstIn(strong_indicators, content))
    ELSE IF ContextCount(content) >= 1
    THEN ContextVerdict(ContextCount(content))
    ELSE IF LowerWord(p.subreddit) \in relevant_subs
    THEN Verdict(TRUE, 60, "Relevant subreddit", <<p.subreddit>>)
    ELSE IF StrLen(content) > 150
    THEN Verdict(TRUE, 40, "Taboola mentioned with substantial content", <<>>)
    ELSE Verdict(FALSE, 20, "Insufficient relevance signals", <<>>)

\* The strs of at most n vocabulary words, the empty str included
Strs(n) == {<<"">>} \cup UNION {[1..k -> Vocabulary] : k \in 1..n}

Posts == [title : Strs(MaxTitleWords), selftext : Strs(MaxBodyWords),
          subreddit : Subreddits]

ScoreIdle == post = [title |-> <<"">>, selftext |-> <<"">>, subreddit |-> ""]
             /\ verdict = NoVerdict

ScoreInit == post \in Posts /\ verdict = NoVerdict

\* the call passes_quick_filter(post)
Score ==
    /\ verdict = NoVerdict
    /\ verdict' = passes_quick_filter(post)
    /\ UNCHANGED <<post, ingestVars, batchVars, gwVars, repairVars, analyzeVars, processVars, dataVars, extractVars>>

-----------------------------------------------------------------------------
(* BaseIngestionAgent.run_quick_filter *)

\* default of the parameter auto_accept_threshold
AUTO_ACCEPT_THRESHOLD == 80

\* default of the parameter rate_limit_every of process_posts_with_llm
RATE_LIMIT_EVERY == 10

LLM_MIN_RELEVANCE_SCORE == 70

Thresholds == {65, AUTO_ACCEPT_THRESHOLD, 85}

\* What the iterable passed to run_quick_filter yields: one post per rung of
\* the ladder that the pipeline's stages treat differently.
SamplePosts == {
    [title |-> <<"Taboola", "Realize">>, selftext |-> <<"">>, subreddit |-> "marketing"],
    [title |-> <<"taboola", "cpm">>, selftext |-> <<"widget", "revenue">>, subreddit |-> "hackernews"],
    [title |-> <<"taboola", "cpm">>, selftext |-> <<"widget">>, subreddit |-> "hackernews"],
    [title |-> <<"i", "realize">>, selftext |-> <<"">>, subreddit |-> "SEO"] }

\* What a quick_filter callable other than passes_quick_filter may return
InjectedVerdicts ==
    {Verdict(a, c, "injected", <<>>) : a \in BOOLEAN, c \in {65, 80, 85}}

WithId(c, n) == [id |-> n, title |-> c.title, selftext |-> c.selftext,
                 subreddit |-> c.subreddit]

\* the three observer callbacks of run_quick_filter
QuickFilterCallbacks == {"on_reject", "on_auto_accept", "on_needs_llm"}

\* `if on_reject: on_reject(post, reason)`, and the same for the other two:
\* the callback is invoked when the caller supplied it
Notify(acc, invoked, name, p) ==
    IF name \in acc.supplied THEN Append(invoked, [name |-> name, id |-> p.id])
    ELSE invoked

\* route without the `continue` of the reject branch
route_no_continue(acc, p, v, auto_accept_threshold) ==
    LET counted == IF ~v.accept
                   THEN [acc EXCEPT !.rejected = @ + 1,
                                    !.callbacks = Notify(acc, @, "on_reject", p)]
                   ELSE acc
    IN IF v.confidence >= auto_accept_threshold
       THEN [counted EXCEPT !.high_confidence = Append(@, <<p, v.reason>>),
                            !.callbacks = Notify(acc, @, "on_auto_accept", p)]
       ELSE [counted EXCEPT !.needs_llm = Append(@, p),
                            !.callbacks = Notify(acc, @, "on_needs_llm", p)]

\* route with `>` for `>=`
route_strict(acc, p, v, auto_accept_threshold) ==
    IF ~v.accept
    THEN [acc EXCEPT !.rejected = @ + 1,
                     !.callbacks = Notify(acc, @, "on_reject", p)]
    ELSE IF v.confidence > auto_accept_threshold
    THEN [acc EXCEPT !.high_confidence = Append(@, <<p, v.reason>>),
                     !.callbacks = Notify(acc, @, "on_auto_accept", p)]
    ELSE [acc EXCEPT !.needs_llm = Append(@, p),
                     !.callbacks = Notify(acc, @, "on_needs_llm", p)]

\* route with the needs_llm append outside the else
route_also_llm(acc, p, v, auto_accept_threshold) ==
    IF ~v.accept
    THEN [acc EXCEPT !.rejected = @ + 1,
                     !.callbacks = Notify(acc, @, "on_reject", p)]
    ELSE IF v.confidence >= auto_accept_threshold
    THEN [acc EXCEPT !.high_confidence = Append(@, <<p, v.reason>>),
                     !.needs_llm = Append(@, p),
                     !.callbacks = Notify(acc, @, "on_auto_accept", p)]
    ELSE [acc EXCEPT !.needs_llm = Append(@, p),
                     !.callbacks = Notify(acc, @, "on_needs_llm", p)]

\* route that files a post only when the callback of its bucket is supplied
route_only_observed(acc, p, v, auto_accept_threshold) ==
    IF ~v.accept
    THEN IF "on_reject" \in acc.supplied
         THEN [acc EXCEPT !.rejected = @ + 1,
                          !.callbacks = Notify(acc, @, "on_reject", p)]
         ELSE acc
    ELSE IF v.confidence >= auto_accept_threshold
    THEN IF "on_auto_accept" \in acc.supplied
         THEN [acc EXCEPT !.high_confidence = Append(@, <<p, v.reason>>),
                          !.callbacks = Notify(acc, @, "on_auto_accept", p)]
         ELSE acc
    ELSE IF "on_needs_llm" \in acc.supplied
         THEN [acc EXCEPT !.needs_llm = Append(@, p),
                          !.callbacks = Notify(acc, @, "on_needs_llm", p)]
         ELSE acc

\* the body of `for post in posts:` on the three accumulators
route(acc, p, v, auto_accept_threshold) ==
    IF ~v.accept
    THEN [acc EXCEPT !.rejected = @ + 1,
                     !.callbacks = Notify(acc, @, "on_reject", p)]
    ELSE IF v.confidence >= auto_accept_threshold
    THEN [acc EXCEPT !.high_confidence = Append(@, <<p, v.reason>>),
                     !.callbacks = Notify(acc, @, "on_auto_accept", p)]
    ELSE [acc EXCEPT !.needs_llm = Append(@, p),
                     !.callbacks = Notify(acc, @, "on_needs_llm", p)]

\* what a caller may pass: no callback, all three, or on_reject alone
SuppliedCallbacks == {{}, QuickFilterCallbacks, {"on_reject"}}

RouteInit ==
    /\ quick_filter \in {"default", "injected"}
    /\ threshold \in Thresholds
    /\ posts = <<>> /\ scores = <<>>
    /\ high_confidence = <<>> /\ needs_llm = <<>> /\ rejected = 0
    /\ callbacks = <<>> /\ supplied \in SuppliedCallbacks
    /\ stage = "filter" /\ cursor = 0
    /\ payloads = <<>> /\ posts_payload = <<>> /\ llm_calls = <<>>
    /\ rate_limit_every = RATE_LIMIT_EVERY /\ pauses = <<>>
    /\ api_key = TRUE /\ llm_results = <<>>
    /\ suppress_exceptions = FALSE /\ raised = {}

IngestIdle ==
    /\ quick_filter = "default" /\ threshold = AUTO_ACCEPT_THRESHOLD
    /\ posts = <<>> /\ scores = <<>>
    /\ high_confidence = <<>> /\ needs_llm = <<>> /\ rejected = 0
    /\ callbacks = <<>> /\ supplied = {}
    /\ stage = "idle" /\ cursor = 0
    /\ payloads = <<>> /\ posts_payload = <<>> /\ llm_calls = <<>>
    /\ rate_limit_every = RATE_LIMIT_EVERY /\ pauses = <<>>
    /\ api_key = TRUE /\ llm_results = <<>>
    /\ suppress_exceptions = FALSE /\ raised = {}

\* one iteration of run_quick_filter's loop on the next post of the iterable
QuickFilterStep ==
    /\ stage = "filter"
    /\ Len(posts) < MaxPosts
    /\ \E c \in SamplePosts, inj \in InjectedVerdicts :
         LET p == WithId(c, Len(posts) + 1)
             v == IF quick_filter = "default" THEN passes_quick_filter(p) ELSE inj
             acc == route([high_confidence |-> high_confidence,
                           needs_llm |-> needs_llm,
                           rejected |-> rejected,
                           callbacks |-> callbacks,
                           supplied |-> supplied], p, v, threshold)
         IN /\ posts' = Append(posts, p)
            /\ scores' = Append(scores, v)
            /\ high_confidence' = acc.high_confidence
            /\ needs_llm' = acc.needs_llm
            /\ rejected' = acc.rejected
            /\ callbacks' = acc.callbacks
    /\ UNCHANGED <<suppress_exceptions, raised, api_key, llm_results, supplied,
                   quick_filter, threshold,
                   stage, cursor, payloads, posts_payload,
                   llm_calls, rate_limit_every, pauses>>
    /\ UNCHANGED <<scoreVars, batchVars, gwVars, repairVars, analyzeVars, processVars, dataVars, extractVars>>

\* the iterable is exhausted: run_quick_filter returns its three results
QuickFilterReturn ==
    /\ stage = "filter"
    /\ stage' = "auto"
    /\ cursor' = 1
    /\ UNCHANGED <<suppress_exceptions, raised, api_key, llm_results, supplied,
                   quick_filter, threshold,
                   posts, scores, high_confidence,
                   needs_llm, rejected, callbacks, payloads, posts_payload,
                   llm_calls, rate_limit_every, pauses>>
    /\ UNCHANGED <<scoreVars, batchVars, gwVars, repairVars, analyzeVars, processVars, dataVars, extractVars>>

-----------------------------------------------------------------------------
(* main(): stage 2, process_high_confidence_posts, and stage 3,            *)
(* process_posts_with_llm with llm_filter_fn = passes_llm_filter           *)

\* what fetch_comments returns (the empty list also on a failed fetch)
CommentLists == {<<>>, <<[id |-> "c1", depth |-> 0, score |-> 1]>>}

serialize_post(p, comments, llm_data) ==
    [post |-> p, llm_filter |-> llm_data, comments |-> comments]

\* "realize" in f"{post.title}{post.selftext}".lower(); no two vocabulary
\* words glued together contain "realize" across the seam
build_auto_accept_metadata(p, filter_reason) ==
    [is_relevant |-> TRUE,
     mentions_taboola |-> TRUE,
     mentions_realize_product |-> In(<<"realize">>, Lower(p.title) \o Lower(p.selftext)),
     relevance_score |-> 90,
     raw_model_response |-> filter_reason,
     filter_auto_accepted |-> TRUE]

DEFAULT_LLM_RESULT ==
    [is_relevant |-> FALSE, mentions_taboola |-> FALSE,
     mentions_realize_product |-> FALSE, relevance_score |-> 0,
     raw_model_response |-> ""]

\* what llm_callable (call_gemini_filter, call_openai_filter) may return
LlmResults ==
    {[is_relevant |-> r, mentions_taboola |-> m,
      mentions_realize_product |-> FALSE, relevance_score |-> sc,
      raw_model_response |-> "json"] : r \in BOOLEAN, m \in BOOLEAN, sc \in {60, 70}}

\* ... or raise
LlmRaises == [exception |-> "RuntimeError"]

\* what the call llm_callable(post, comments_sample) may do: without the
\* credential it raises before any request is sent
llm_callable(key_set) == IF key_set THEN LlmResults \cup {LlmRaises} ELSE {LlmRaises}

\* is_relevant_llm_result without the mentions_taboola conjunct
is_relevant_llm_result_any_mention(llm_result) ==
    /\ llm_result.is_relevant
    /\ llm_result.relevance_score >= LLM_MIN_RELEVANCE_SCORE

is_relevant_llm_result(llm_result) ==
    /\ llm_result.is_relevant
    /\ llm_result.mentions_taboola
    /\ llm_result.relevance_score >= LLM_MIN_RELEVANCE_SCORE

\* run_llm_filter, given what the call llm_callable(post, comments_sample) did
run_llm_filter(llm_outcome) ==
    LET llm_result ==
            IF llm_outcome = LlmRaises
            THEN [is_relevant |-> FALSE, mentions_taboola |-> FALSE,
                  mentions_realize_product |-> FALSE, relevance_score |-> 0,
                  raw_model_response |-> "", error |-> llm_outcome.exception]
            ELSE llm_outcome
    IN <<is_relevant_llm_result(llm_result), llm_result>>

IngestInit ==
    /\ quick_filter = "default"
    /\ threshold = AUTO_ACCEPT_THRESHOLD
    /\ posts = <<>> /\ scores = <<>>
    /\ high_confidence = <<>> /\ needs_llm = <<>> /\ rejected = 0
    /\ callbacks = <<>> /\ supplied = QuickFilterCallbacks
    /\ stage = "filter" /\ cursor = 0
    /\ payloads = <<>> /\ posts_payload = <<>> /\ llm_calls = <<>>
    /\ rate_limit_every \in {2, RATE_LIMIT_EVERY} /\ pauses = <<>>
    /\ api_key \in BOOLEAN /\ llm_results = <<>>
    /\ suppress_exceptions \in BOOLEAN /\ raised = {}

\* one iteration of process_high_confidence_posts
AutoAcceptStep ==
    /\ stage = "auto"
    /\ cursor <= Len(high_confidence)
    /\ \E comments \in CommentLists :
         LET p == high_confidence[cursor][1]
             filter_reason == high_confidence[cursor][2]
             metadata == build_auto_accept_metadata(p, filter_reason)
         IN payloads' = Append(payloads, serialize_post(p, comments, metadata))
    /\ cursor' = cursor + 1
    /\ UNCHANGED <<suppress_exceptions, raised, api_key, llm_results, supplied,
                   quick_filter, threshold,
                   posts, scores, high_confidence,
                   needs_llm, rejected, callbacks, stage, posts_payload,
                   llm_calls, rate_limit_every, pauses>>
    /\ UNCHANGED <<scoreVars, batchVars, gwVars, repairVars, analyzeVars, processVars, dataVars, extractVars>>

\* process_high_confidence_posts returns; posts_payload.extend(high_conf_payloads)
AutoAcceptReturn ==
    /\ stage = "auto"
    /\ cursor > Len(high_confidence)
    /\ posts_payload' = posts_payload \o payloads
    /\ payloads' = <<>>
    /\ stage' = "llm"
    /\ cursor' = 1
    /\ UNCHANGED <<suppress_exceptions, raised, api_key, llm_results, supplied,
                   quick_filter, threshold,
                   posts, scores, high_confidence,
                   needs_llm, rejected, callbacks, llm_calls, rate_limit_every,
                   pauses>>
    /\ UNCHANGED <<scoreVars, batchVars, gwVars, repairVars, analyzeVars, processVars, dataVars, extractVars>>

\* where _process() may raise: nowhere, in fetch_comments(post.id), or in
\* llm_filter_fn(post, comments) outside what run_llm_filter catches
RaisePoints == {"none", "fetch_comments", "llm_filter_fn"}

\* an exception of _process() is always swallowed
handle_exception_always_continue(suppress) == "continue"

\* `if suppress_exceptions: try: _process() except Exception: ... continue`
\* `else: _process()`: what becomes of an exception raised by _process()
handle_exception(suppress) == IF suppress THEN "continue" ELSE "propagate"

\* a pause after every post, the last included
rate_limit_pause_after_each(every, idx, total) == every # 0

\* `rate_limit_every and rate_limit_sleep > 0 and idx % rate_limit_every == 0
\* and idx < total`, with rate_limit_sleep at its default 3.0
rate_limit_pause(every, idx, total) ==
    every # 0 /\ idx % every = 0 /\ idx < total

\* one iteration of process_posts_with_llm: on_post_start, _process() and
\* the rate-limit pause
LlmStep ==
    /\ stage = "llm"
    /\ cursor <= Len(needs_llm)
    /\ \E raise_point \in RaisePoints :
         LET p == needs_llm[cursor]
             started == Append(callbacks, [name |-> "on_post_start", id |-> p.id])
         IN
         IF raise_point = "none"
         THEN /\ \E comments \in CommentLists, llm_outcome \in llm_callable(api_key) :
                   LET filtered == run_llm_filter(llm_outcome)
                   IN /\ llm_calls' = Append(llm_calls, p.id)
                      /\ llm_results' = Append(llm_results, filtered[2])
                      /\ callbacks' =
                            LET reported == Append(started,
                                                   [name |-> "on_llm_result", id |-> p.id])
                            IN IF rate_limit_pause(rate_limit_every, cursor, Len(needs_llm))
                               THEN Append(reported, [name |-> "on_rate_limit_pause",
                                                      id |-> p.id])
                               ELSE reported
                      /\ payloads' = IF filtered[1]
                                     THEN Append(payloads,
                                                 serialize_post(p, comments, filtered[2]))
                                     ELSE payloads
              /\ pauses' = IF rate_limit_pause(rate_limit_every, cursor, Len(needs_llm))
                           THEN Append(pauses, cursor)
                           ELSE pauses
              /\ cursor' = cursor + 1
              /\ UNCHANGED <<stage, raised>>
         ELSE /\ llm_calls' = IF raise_point = "llm_filter_fn"
                              THEN Append(llm_calls, p.id) ELSE llm_calls
              /\ raised' = raised \cup {cursor}
              /\ IF handle_exception(suppress_exceptions) = "continue"
                 THEN /\ callbacks' = Append(started, [name |-> "on_exception", id |-> p.id])
                      /\ cursor' = cursor + 1
                      /\ stage' = stage
                 ELSE /\ callbacks' = started
                      /\ cursor' = cursor
                      /\ stage' = "failed"
              /\ UNCHANGED <<llm_results, payloads, pauses>>
    /\ UNCHANGED <<api_key, supplied, suppress_exceptions, quick_filter, threshold, posts,
                   scores, high_confidence, needs_llm, rejected, posts_payload,
                   rate_limit_every>>
    /\ UNCHANGED <<scoreVars, batchVars, gwVars, repairVars, analyzeVars, processVars, dataVars, extractVars>>

\* process_posts_with_llm returns; posts_payload.extend(llm_payloads)
LlmReturn ==
    /\ stage = "llm"
    /\ cursor > Len(needs_llm)
    /\ posts_payload' = posts_payload \o payloads
    /\ payloads' = <<>>
    /\ stage' = "done"
    /\ UNCHANGED <<suppress_exceptions, raised, api_key, llm_results, supplied,
                   quick_filter, threshold,
                   posts, scores, high_confidence,
                   needs_llm, rejected, callbacks, cursor, llm_calls,
                   rate_limit_every, pauses>>
    /\ UNCHANGED <<scoreVars, batchVars, gwVars, repairVars, analyzeVars, processVars, dataVars, extractVars>>

-----------------------------------------------------------------------------
(* SentimentAnalyzer.analyze_batch *)

LLM_MAX_WORKERS == 2

\* config.LLM_REQUEST_DELAY, 0.25 s, in hundredths of a second
LLM_REQUEST_DELAY == 25

\* max_workers = max(1, LLM_MAX_WORKERS)
max_workers == IF LLM_MAX_WORKERS > 1 THEN LLM_MAX_WORKERS ELSE 1

\* An analysis result, reduced to the fields that tell results apart;
\* metadata <<>> stands for "no metadata key".
None == [overall_sentiment |-> "None", language |-> "", reasoning |-> "",
         metadata |-> <<>>]

_get_empty_response ==
    [overall_sentiment |-> "neutral", language |-> "unknown",
     reasoning |-> "Empty or invalid text", metadata |-> <<>>]

\* the items a caller may pass at position i: blank or not, with or without metadata
ItemsAt(i) == [text : {"", " ", "A"}, metadata : {<<>>, <<i>>}]

ItemLists == UNION {{l \in [1..n -> UNION {ItemsAt(i) : i \in 1..n}] :
                        \A i \in 1..n : l[i] \in ItemsAt(i)} : n \in 0..MaxItems}

\* `not text`: the test without `or not text.strip()`
Blank_empty_only(text) == text = ""

\* `not text or not text.strip()`; " " stands for a text of whitespace only
Blank(text) == text = "" \/ text = " "

\* what llm_client.generate(prompt) does: returns a JSON object, returns
\* something _parse_llm_output rejects, or raises
GatewayOutcomes == {"object", "malformed", "raises"}

\* analyze_text: the result, or raised |-> TRUE when it raises
analyze_text(item, gateway_outcome) ==
    IF Blank(item.text)
    THEN [raised |-> FALSE,
          result |-> [_get_empty_response EXCEPT !.metadata = item.metadata]]
    ELSE IF gateway_outcome \in {"raises", "malformed"}
    THEN [raised |-> TRUE, result |-> None]
    ELSE [raised |-> FALSE,
          result |-> [overall_sentiment |-> "positive", language |-> "en",
                      reasoning |-> "Analysis completed",
                      metadata |-> item.metadata]]

\* process_item without its try/except: the task raises what analyze_text raises
process_item_no_catch(index, item, gateway_outcome) ==
    LET analysis == analyze_text(item, gateway_outcome) IN
    [exception |-> analysis.raised, index |-> index, result |-> analysis.result]

\* process_item: what the future of (index, item) ends up holding
process_item(index, item, gateway_outcome) ==
    LET analysis == analyze_text(item, gateway_outcome) IN
    [exception |-> FALSE, index |-> index,
     result |-> IF analysis.raised THEN _get_empty_response ELSE analysis.result]

\* every result written into the first slot
slot_first(fut, n_completed) == 1

\* the slot taken from the order of completion
slot_by_completion(fut, n_completed) == n_completed + 1

\* the slot the as_completed loop assigns for a finished future
slot(fut, n_completed) == fut.index

Pending == [exception |-> FALSE, index |-> 0, result |-> None]

Running == {i \in DOMAIN task : task[i] = "running"}

BatchInit ==
    /\ items \in ItemLists
    /\ submitted = 0
    /\ task = [i \in 1..Len(items) |-> "none"]
    /\ calls = [i \in 1..Len(items) |-> "none"]
    /\ future = [i \in 1..Len(items) |-> Pending]
    /\ results = [i \in 1..Len(items) |-> None]
    /\ completed = 0
    /\ collected = <<>>
    /\ writes = [i \in 1..Len(items) |-> 0]
    /\ batch_pc = "submit"
    /\ returned = <<>>
    /\ submit_at = [i \in 1..Len(items) |-> 0]
    /\ paused = 0

BatchIdle ==
    /\ items = <<>> /\ submitted = 0 /\ task = <<>> /\ calls = <<>>
    /\ future = <<>> /\ results = <<>> /\ completed = 0 /\ collected = <<>>
    /\ writes = <<>>
    /\ batch_pc = "idle" /\ returned = <<>>
    /\ submit_at = <<>> /\ paused = 0

\* the pause after every submission, the last included
submission_pause_after_each(idx, total) ==
    IF LLM_REQUEST_DELAY > 0 THEN LLM_REQUEST_DELAY ELSE 0

\* `if LLM_REQUEST_DELAY > 0 and idx < total - 1: time.sleep(LLM_REQUEST_DELAY)`,
\* idx counted from 0: the time slept after the submission of item idx
submission_pause(idx, total) ==
    IF LLM_REQUEST_DELAY > 0 /\ idx < total - 1 THEN LLM_REQUEST_DELAY ELSE 0

\* `if total == 0: return []`
ReturnEmpty ==
    /\ batch_pc = "submit"
    /\ Len(items) = 0
    /\ returned' = <<>>
    /\ batch_pc' = "returned"
    /\ UNCHANGED <<submit_at, paused>>
    /\ UNCHANGED <<items, submitted, task, calls, future, results, completed,
                   collected, writes>>
    /\ UNCHANGED <<scoreVars, ingestVars, gwVars, repairVars, analyzeVars, processVars, dataVars, extractVars>>

\* one iteration of the submission loop: executor.submit, then the pause
\* LLM_REQUEST_DELAY unless this was the last item
Submit ==
    /\ batch_pc = "submit"
    /\ submitted < Len(items)
    /\ submitted' = submitted + 1
    /\ submit_at' = [submit_at EXCEPT ![submitted + 1] = paused]
    /\ paused' = paused + submission_pause(submitted, Len(items))
    /\ task' = [task EXCEPT ![submitted + 1] = "queued"]
    /\ batch_pc' = IF submitted + 1 = Len(items) THEN "collect" ELSE "submit"
    /\ UNCHANGED <<items, calls, future, results, completed, collected, writes, returned>>
    /\ UNCHANGED <<scoreVars, ingestVars, gwVars, repairVars, analyzeVars, processVars, dataVars, extractVars>>

\* a free worker takes the oldest queued task and runs process_item up to
\* the gateway call; a blank text never reaches the gateway
StartTask(i) ==
    /\ task[i] = "queued"
    /\ \A j \in 1..(i - 1) : task[j] # "queued"
    /\ Cardinality(Running) < max_workers
    /\ IF Blank(items[i].text)
       THEN /\ task' = [task EXCEPT ![i] = "finished"]
            /\ future' = [future EXCEPT ![i] = process_item(i, items[i], "object")]
       ELSE /\ task' = [task EXCEPT ![i] = "running"]
            /\ future' = future
    /\ UNCHANGED <<submit_at, paused>>
    /\ UNCHANGED <<items, submitted, calls, results, completed, collected, writes,
                   batch_pc, returned>>
    /\ UNCHANGED <<scoreVars, ingestVars, gwVars, repairVars, analyzeVars, processVars, dataVars, extractVars>>

\* llm_client.generate returns in worker i; the rest of process_item runs
GatewayReturns(i) ==
    /\ task[i] = "running"
    /\ \E raw \in GatewayOutcomes \ {"raises"} :
         /\ future' = [future EXCEPT ![i] = process_item(i, items[i], raw)]
         /\ calls' = [calls EXCEPT ![i] = raw]
    /\ task' = [task EXCEPT ![i] = "finished"]
    /\ UNCHANGED <<submit_at, paused>>
    /\ UNCHANGED <<items, submitted, results, completed, collected, writes, batch_pc,
                   returned>>
    /\ UNCHANGED <<scoreVars, ingestVars, gwVars, repairVars, analyzeVars, processVars, dataVars, extractVars>>

\* llm_client.generate raises in worker i; the rest of process_item runs
GatewayRaises(i) ==
    /\ task[i] = "running"
    /\ future' = [future EXCEPT ![i] = process_item(i, items[i], "raises")]
    /\ calls' = [calls EXCEPT ![i] = "raises"]
    /\ task' = [task EXCEPT ![i] = "finished"]
    /\ UNCHANGED <<submit_at, paused>>
    /\ UNCHANGED <<items, submitted, results, completed, collected, writes, batch_pc,
                   returned>>
    /\ UNCHANGED <<scoreVars, ingestVars, gwVars, repairVars, analyzeVars, processVars, dataVars, extractVars>>

\* one iteration of `for future in as_completed(futures)`: any finished
\* future not yet yielded; future.result() re-raises what the task raised
Collect(i) ==
    /\ batch_pc = "collect"
    /\ task[i] = "finished"
    /\ task' = [task EXCEPT ![i] = "collected"]
    /\ collected' = Append(collected, i)
    /\ IF future[i].exception
       THEN /\ batch_pc' = "raised"
            /\ UNCHANGED <<results, writes, completed>>
       ELSE /\ results' = [results EXCEPT ![slot(future[i], completed)] = future[i].result]
            /\ writes' = [writes EXCEPT ![slot(future[i], completed)] = @ + 1]
            /\ completed' = completed + 1
            /\ batch_pc' = batch_pc
    /\ UNCHANGED <<submit_at, paused>>
    /\ UNCHANGED <<items, submitted, calls, future, returned>>
    /\ UNCHANGED <<scoreVars, ingestVars, gwVars, repairVars, analyzeVars, processVars, dataVars, extractVars>>

\* as_completed is exhausted, the executor shuts down, the list is returned
BatchReturn ==
    /\ batch_pc = "collect"
    /\ \A i \in 1..Len(items) : task[i] = "collected"
    /\ returned' = [i \in 1..Len(items) |->
                        IF results[i] = None THEN _get_empty_response ELSE results[i]]
    /\ batch_pc' = "returned"
    /\ UNCHANGED <<submit_at, paused>>
    /\ UNCHANGED <<items, submitted, task, calls, future, results, completed,
                   collected, writes>>
    /\ UNCHANGED <<scoreVars, ingestVars, gwVars, repairVars, analyzeVars, processVars, dataVars, extractVars>>

-----------------------------------------------------------------------------
(* The gateway retry loops *)

Gateways == {"GeminiClient.generate", "call_gemini_filter", "call_openai_filter"}

\* What one HTTP request can meet: a status code; "200-garbled", status 200
\* with a body that is not JSON; "timeout", requests.Timeout; "error", any
\* other requests.RequestException.
Responses == {"200", "200-garbled", "400", "401", "429", "500", "502", "503",
              "504", "timeout", "error"}

retryable_status == {"429", "500", "502", "503", "504"}

Statuses == {"200", "400", "401"} \cup retryable_status

\* config.MAX_RETRIES and config.RETRY_DELAY, the defaults of GeminiClient
MAX_RETRIES == 3
RETRY_DELAY == 2

max_retries(g) ==
    CASE g = "GeminiClient.generate" -> MAX_RETRIES
      [] g = "call_gemini_filter" -> 5
      [] g = "call_openai_filter" -> 3

initial_delay(g) ==
    CASE g = "GeminiClient.generate" -> RETRY_DELAY
      [] g = "call_gemini_filter" -> 2
      [] g = "call_openai_filter" -> 2

max_delay(g) ==
    CASE g = "call_gemini_filter" -> 60
      [] g = "call_openai_filter" -> 30

Min(a, b) == IF a <= b THEN a ELSE b

GatewayInit ==
    /\ gateway \in Gateways
    /\ attempt = 0
    /\ retry_delay = initial_delay(gateway)
    /\ requests = <<>>
    /\ sleeps = <<>>
    /\ outcome = "pending"
    /\ error = ""

GatewayIdle ==
    /\ gateway = "none" /\ attempt = 0 /\ retry_delay = 0
    /\ requests = <<>> /\ sleeps = <<>> /\ outcome = "idle" /\ error = ""

\* generate_caught with an except clause that misses transport errors
generate_caught_http_only(resp) == resp \notin {"200", "timeout", "error"}

\* the responses GeminiClient.generate's except clause catches:
\* raise_for_status() raises HTTPError, a RequestException, for every 4xx and
\* 5xx; a garbled body raises ValueError
generate_caught(resp) == resp # "200"

\* one iteration of the loop of GeminiClient.generate
GenerateAttempt ==
    /\ gateway = "GeminiClient.generate"
    /\ outcome = "pending"
    /\ attempt < max_retries(gateway)
    /\ \E resp \in Responses :
         /\ requests' = Append(requests, resp)
         /\ IF ~generate_caught(resp)
            THEN /\ outcome' = "returned" /\ error' = error
                 /\ UNCHANGED <<attempt, sleeps>>
            ELSE IF attempt < max_retries(gateway) - 1
            THEN /\ sleeps' = Append(sleeps, [after |-> Len(requests) + 1,
                                              seconds |-> retry_delay])
                 /\ attempt' = attempt + 1
                 /\ outcome' = outcome /\ error' = error
            ELSE /\ outcome' = "raised" /\ error' = resp
                 /\ UNCHANGED <<attempt, sleeps>>
    /\ UNCHANGED <<gateway, retry_delay>>
    /\ UNCHANGED <<scoreVars, ingestVars, batchVars, repairVars, analyzeVars, processVars, dataVars, extractVars>>

\* one iteration of the loop of call_gemini_filter.  A garbled 200 body makes
\* response.json() raise: a requests.JSONDecodeError (a RequestException) or
\* a plain ValueError, by the version of requests; the first is retried, the
\* second propagates.
GeminiFilterAttempt ==
    /\ gateway = "call_gemini_filter"
    /\ outcome = "pending"
    /\ attempt < max_retries(gateway)
    /\ \E resp \in Responses, as_request_exception \in BOOLEAN :
         LET polite == IF attempt > 0 THEN <<[after |-> Len(requests), seconds |-> 1]>>
                       ELSE <<>>
             last == attempt >= max_retries(gateway) - 1
             after == Len(requests) + 1
         IN
         /\ requests' = Append(requests, resp)
         /\ IF resp = "200"
            THEN /\ outcome' = "returned" /\ error' = error
                 /\ sleeps' = sleeps \o polite
                 /\ UNCHANGED <<attempt, retry_delay>>
            ELSE IF resp \in retryable_status
            THEN IF ~last
                 THEN /\ sleeps' = sleeps \o polite \o
                                   <<[after |-> after,
                                      seconds |-> Min(retry_delay, max_delay(gateway))]>>
                      /\ retry_delay' = retry_delay * 2
                      /\ attempt' = attempt + 1
                      /\ outcome' = outcome /\ error' = error
                 ELSE /\ outcome' = "raised" /\ error' = resp
                      /\ sleeps' = sleeps \o polite
                      /\ UNCHANGED <<attempt, retry_delay>>
            ELSE IF resp \in Statuses \/ (resp = "200-garbled" /\ ~as_request_exception)
            THEN /\ outcome' = "raised" /\ error' = resp
                 /\ sleeps' = sleeps \o polite
                 /\ UNCHANGED <<attempt, retry_delay>>
            ELSE IF ~last
                 THEN /\ sleeps' = sleeps \o polite \o
                                   <<[after |-> after, seconds |-> retry_delay]>>
                      /\ retry_delay' = retry_delay * 2
                      /\ attempt' = attempt + 1
                      /\ outcome' = outcome /\ error' = error
                 ELSE /\ outcome' = "raised" /\ error' = resp
                      /\ sleeps' = sleeps \o polite
                      /\ UNCHANGED <<attempt, retry_delay>>
    /\ UNCHANGED gateway
    /\ UNCHANGED <<scoreVars, ingestVars, batchVars, repairVars, analyzeVars, processVars, dataVars, extractVars>>

\* one iteration of the loop of call_openai_filter
OpenAIFilterAttempt ==
    /\ gateway = "call_openai_filter"
    /\ outcome = "pending"
    /\ attempt < max_retries(gateway)
    /\ \E resp \in Responses :
         LET last == attempt >= max_retries(gateway) - 1
             after == Len(requests) + 1
         IN
         /\ requests' = Append(requests, resp)
         /\ IF resp = "200"
            THEN /\ outcome' = "returned" /\ error' = error
                 /\ UNCHANGED <<attempt, retry_delay, sleeps>>
            ELSE IF resp \in Statuses \/ resp = "200-garbled"
            THEN IF resp \in retryable_status /\ ~last
                 THEN /\ sleeps' = Append(sleeps,
                                     [after |-> after,
                                      seconds |-> Min(retry_delay, max_delay(gateway))])
                      /\ retry_delay' = Min(retry_delay * 2, max_delay(gateway))
                      /\ attempt' = attempt + 1
                      /\ outcome' = outcome /\ error' = error
                 ELSE /\ outcome' = "raised" /\ error' = resp
                      /\ UNCHANGED <<attempt, retry_delay, sleeps>>
            ELSE IF ~last
                 THEN /\ sleeps' = Append(sleeps, [after |-> after, seconds |-> retry_delay])
                      /\ retry_delay' = Min(retry_delay * 2, max_delay(gateway))
                      /\ attempt' = attempt + 1
                      /\ outcome' = outcome /\ error' = error
                 ELSE /\ outcome' = "raised" /\ error' = resp
                      /\ UNCHANGED <<attempt, retry_delay, sleeps>>
    /\ UNCHANGED gateway
    /\ UNCHANGED <<scoreVars, ingestVars, batchVars, repairVars, analyzeVars, processVars, dataVars, extractVars>>

-----------------------------------------------------------------------------
(* SentimentAnalyzer._validate_and_fix_response *)

\* A JSON value, as json.loads builds it: a record whose one field names
\* the type and holds the content.  A dict's content is a function on the
\* keys it has, a list's a sequence; numbers are hundredths.
Str(s) == [str |-> s]
Num(n) == [num |-> n]
Bool(b) == [bool |-> b]
Null == [null |-> 0]
Dict(f) == [dict |-> f]
List(s) == [list |-> s]

\* isinstance(x, dict), isinstance(x, list)
IsDict(x) == DOMAIN x = {"dict"}
IsList(x) == DOMAIN x = {"list"}

\* key in d, d[key], and d after d[key] = val
Has(d, key) == key \in DOMAIN d.dict
Get(d, key) == d.dict[key]
Put(d, key, val) ==
    Dict([k \in DOMAIN d.dict \cup {key} |-> IF k = key THEN val ELSE d.dict[k]])

ANALYSIS_FIELDS == <<"product_quality", "user_experience", "business_practices",
                     "financial_performance", "publisher_relations",
                     "advertiser_value">>

SENTIMENT_CATEGORIES == <<"positive", "neutral", "negative", "mixed">>

Fields == {ANALYSIS_FIELDS[i] : i \in 1..Len(ANALYSIS_FIELDS)}

\* `x in SENTIMENT_CATEGORIES`, `x in ANALYSIS_FIELDS`
InCategories(x) == \E i \in 1..Len(SENTIMENT_CATEGORIES) : x = Str(SENTIMENT_CATEGORIES[i])
InFields(x) == \E i \in 1..Len(ANALYSIS_FIELDS) : x = Str(ANALYSIS_FIELDS[i])

\* {"sentiment": "neutral", "confidence": 0.0, "key_phrases": []}
NeutralField ==
    Dict([sentiment |-> Str("neutral"), confidence |-> Num(0), key_phrases |-> List(<<>>)])

EdgeCases(language) ==
    Dict([is_sarcastic |-> Bool(FALSE), has_mixed_sentiment |-> Bool(FALSE),
          is_non_english |-> Bool(FALSE), language |-> Str(language),
          is_spam |-> Bool(FALSE)])

\* _get_empty_response(), every key spelled out
EmptyResponse ==
    Dict([overall_sentiment |-> Str("neutral"),
          field_sentiments |-> Dict([f \in Fields |-> NeutralField]),
          edge_cases |-> EdgeCases("unknown"),
          themes |-> List(<<>>),
          reasoning |-> Str("Empty or invalid text")])

\* next((item for item in response if isinstance(item, dict)), {})
FirstDict(l) ==
    IF \E i \in 1..Len(l) : IsDict(l[i])
    THEN l[CHOOSE i \in 1..Len(l) : IsDict(l[i]) /\ \A j \in 1..(i - 1) : ~IsDict(l[j])]
    ELSE Dict(<<>>)

\* the items of a field_sentiments list that name a canonical field
Named(l) == {i \in 1..Len(l) : IsDict(l[i]) /\ Has(l[i], "field") /\ InFields(Get(l[i], "field"))}

\* normalized_fs for a field_sentiments list: by the items' "field", a later
\* item replacing an earlier one; by position when no item names a field
NormalizeList(l) ==
    IF Named(l) # {}
    THEN LET named == {Get(l[i], "field").str : i \in Named(l)}
             last(f) == CHOOSE i \in Named(l) :
                            /\ Get(l[i], "field") = Str(f)
                            /\ \A j \in Named(l) : Get(l[j], "field") = Str(f) => j <= i
         IN Dict([f \in named |-> l[last(f)]])
    ELSE LET at == {idx \in 1..Len(ANALYSIS_FIELDS) : idx <= Len(l) /\ IsDict(l[idx])}
             pos(f) == CHOOSE idx \in at : ANALYSIS_FIELDS[idx] = f
         IN Dict([f \in {ANALYSIS_FIELDS[idx] : idx \in at} |-> l[pos(f)]])

\* Normalize that keeps nothing of a field_sentiments dict
Normalize_lists_only(field_sentiments) ==
    IF IsList(field_sentiments) THEN NormalizeList(field_sentiments.list)
    ELSE Dict(<<>>)

\* normalized_fs
Normalize(field_sentiments) ==
    IF IsDict(field_sentiments) THEN field_sentiments
    ELSE IF IsList(field_sentiments) THEN NormalizeList(field_sentiments.list)
    ELSE Dict(<<>>)


\* FixField that overwrites the confidence it was given
FixField_reset(fs) ==
    Dict([k \in DOMAIN fs.dict \cup {"sentiment", "confidence", "key_phrases"} |->
            IF k = "sentiment" /\ (~Has(fs, k) \/ ~InCategories(Get(fs, k))) THEN Str("neutral")
            ELSE IF k = "confidence" THEN Num(0)
            ELSE IF k = "key_phrases" /\ ~Has(fs, k) THEN List(<<>>)
            ELSE Get(fs, k)])

\* the body of `for field in ANALYSIS_FIELDS:` for a field that is present
\* and a dict
FixField(fs) ==
    LET a == IF ~Has(fs, "sentiment") \/ ~InCategories(Get(fs, "sentiment"))
             THEN Put(fs, "sentiment", Str("neutral")) ELSE fs
        b == IF ~Has(a, "confidence") THEN Put(a, "confidence", Num(0)) ELSE a
    IN IF ~Has(b, "key_phrases") THEN Put(b, "key_phrases", List(<<>>)) ELSE b

\* FixFields without the synthesis of missing fields
FixFields_present_only(normalized_fs) ==
    Dict([k \in DOMAIN normalized_fs.dict |->
            IF k \in Fields /\ IsDict(Get(normalized_fs, k))
            THEN FixField(Get(normalized_fs, k))
            ELSE Get(normalized_fs, k)])

\* response["field_sentiments"] after the loop over ANALYSIS_FIELDS
FixFields(normalized_fs) ==
    Dict([k \in DOMAIN normalized_fs.dict \cup Fields |->
            IF k \notin Fields THEN Get(normalized_fs, k)
            ELSE IF ~Has(normalized_fs, k) \/ ~IsDict(Get(normalized_fs, k))
            THEN NeutralField
            ELSE FixField(Get(normalized_fs, k))])

_validate_and_fix_response(resp) ==
    LET r0 == IF IsList(resp) THEN FirstDict(resp.list) ELSE resp IN
    IF ~IsDict(r0) THEN EmptyResponse
    ELSE
    LET r1 == IF ~Has(r0, "overall_sentiment") \/ ~InCategories(Get(r0, "overall_sentiment"))
              THEN Put(r0, "overall_sentiment", Str("neutral")) ELSE r0
        field_sentiments == IF Has(r1, "field_sentiments")
                            THEN Get(r1, "field_sentiments") ELSE Dict(<<>>)
        r2 == Put(r1, "field_sentiments", FixFields(Normalize(field_sentiments)))
        r3 == IF ~Has(r2, "edge_cases") THEN Put(r2, "edge_cases", EdgeCases("en")) ELSE r2
        r4 == IF ~Has(r3, "themes") \/ ~IsList(Get(r3, "themes"))
              THEN Put(r3, "themes", List(<<>>)) ELSE r3
    IN IF ~Has(r4, "reasoning") THEN Put(r4, "reasoning", Str("Analysis completed")) ELSE r4

\* ---- the values _validate_and_fix_response is handed

MaxThemes == 4
MaxListLen == 2

\* marks a key the dict does not have
Absent == [absent |-> 0]
MkDict(f) == Dict([k \in {k \in DOMAIN f : f[k] # Absent} |-> f[k]])

FieldRecords ==
    {MkDict(f) : f \in [sentiment : {Absent, Str("positive"), Str("great")},
                        confidence : {Absent, Num(80), Str("high")},
                        key_phrases : {Absent, List(<<Str("great product")>>)}]}

GoodField == Dict([sentiment |-> Str("negative"), confidence |-> Num(70),
                   key_phrases |-> List(<<>>)])

FieldSentimentDicts ==
    {MkDict(f) : f \in [product_quality : {Absent, Str("positive")} \cup FieldRecords,
                        user_experience : {Absent, GoodField},
                        extra_field : {Absent, GoodField}]}

ListItems ==
    {Put(GoodField, "field", Str("product_quality")),
     Put(Dict([sentiment |-> Str("great")]), "field", Str("user_experience")),
     Put(GoodField, "field", Str("bogus")),
     Dict([sentiment |-> Str("mixed")]),
     Str("positive")}

FieldSentimentLists ==
    {List(l) : l \in UNION {[1..n -> ListItems] : n \in 0..MaxListLen}}

Theme == Dict([theme |-> Str("ads"), relevance |-> Num(90)])

ThemeLists == {List([i \in 1..n |-> Theme]) : n \in 0..MaxThemes}

Mappings ==
    {MkDict(f) : f \in
        [overall_sentiment : {Absent, Str("positive"), Str("great"), Null},
         field_sentiments : {Absent, Str("none"), Null}
                            \cup FieldSentimentDicts \cup FieldSentimentLists,
         edge_cases : {Absent, EdgeCases("fr"), Str("none"),
                       Dict([is_spam |-> Bool(TRUE)])},
         themes : {Absent, Str("ads")} \cup ThemeLists,
         reasoning : {Absent, Str("because"), Num(100)}]}

SampleMappings ==
    {Dict(<<>>),
     Dict([overall_sentiment |-> Str("negative")]),
     Dict([overall_sentiment |-> Str("great"), themes |-> Str("ads")])}

NonMappings ==
    {Str("not json"), Null, Num(100)}
    \cup {List(l) : l \in UNION {[1..n -> SampleMappings \cup {Str("x")}] : n \in 0..MaxListLen}}

RepairInputs == Mappings \cup NonMappings

NotCalled == [not_called |-> 0]

RepairInit == response \in RepairInputs /\ repaired = NotCalled /\ again = NotCalled

RepairIdle == response = NotCalled /\ repaired = NotCalled /\ again = NotCalled

\* the call _validate_and_fix_response(response)
Repair ==
    /\ response # NotCalled
    /\ repaired = NotCalled
    /\ repaired' = _validate_and_fix_response(response)
    /\ UNCHANGED <<response, again>>
    /\ UNCHANGED <<scoreVars, ingestVars, batchVars, gwVars, analyzeVars, processVars, dataVars, extractVars>>

\* the call _validate_and_fix_response on what the first call returned
RepairAgain ==
    /\ repaired # NotCalled
    /\ again = NotCalled
    /\ again' = _validate_and_fix_response(repaired)
    /\ UNCHANGED <<response, repaired>>
    /\ UNCHANGED <<scoreVars, ingestVars, batchVars, gwVars, analyzeVars, processVars, dataVars, extractVars>>

-----------------------------------------------------------------------------
(* SentimentAnalyzer.analyze_text and _parse_llm_output *)

\* A Python str handed to json.loads, by what json.loads does with it:
\* Text(x) parses to the JSON value x, Text(NotJson) makes it raise.
Text(x) == [text |-> x]
NotJson == [not_json |-> 0]
IsText(x) == DOMAIN x = {"text"}

\* llm_client.generate(prompt) raised
GenerateRaises == [raises |-> "RequestException"]

\* what llm_client.generate(prompt) may do: return a dict, a str, any other
\* JSON value (GeminiClient returns json.loads of the model's text), or raise
LlmOutputs ==
    SampleMappings
    \cup {Dict([overall_sentiment |-> Str("positive"),
                field_sentiments |-> Dict([product_quality |-> GoodField])])}
    \cup (NonMappings \ {Str("not json")})
    \cup {Text(x) : x \in SampleMappings \cup {NotJson, List(<<>>), Null}}
    \cup {GenerateRaises}

\* the (text, metadata) analyze_text may be called with
TextItems == [text : {"", " ", "A"}, metadata : {Dict(<<>>), Dict([id |-> Str("p1")])}]

\* _parse_llm_output: the parsed value, or raised |-> TRUE for its ValueError
_parse_llm_output(out) ==
    IF IsDict(out) THEN [raised |-> FALSE, value |-> out]
    ELSE IF IsText(out)
    THEN IF out.text = NotJson
         THEN [raised |-> TRUE, value |-> Null]
         ELSE [raised |-> FALSE, value |-> out.text]
    ELSE [raised |-> TRUE, value |-> Null]

\* `if metadata: d["metadata"] = metadata`
WithMetadata(d, metadata) ==
    IF metadata # Dict(<<>>) THEN Put(d, "metadata", metadata) ELSE d

AnalyzeInit ==
    /\ text_item \in TextItems
    /\ raw_output \in LlmOutputs
    /\ analyzed = NotCalled

AnalyzeIdle ==
    /\ text_item = NotCalled /\ raw_output = NotCalled /\ analyzed = NotCalled

\* the call analyze_text(text, metadata=metadata)
AnalyzeText ==
    /\ text_item # NotCalled
    /\ analyzed = NotCalled
    /\ analyzed' =
         IF Blank(text_item.text)
         THEN [raised |-> FALSE,
               result |-> WithMetadata(EmptyResponse, text_item.metadata)]
         ELSE IF raw_output = GenerateRaises
         THEN [raised |-> TRUE, result |-> NotCalled]
         ELSE LET parsed == _parse_llm_output(raw_output) IN
              IF parsed.raised
              THEN [raised |-> TRUE, result |-> NotCalled]
              ELSE [raised |-> FALSE,
                    result |-> WithMetadata(_validate_and_fix_response(parsed.value),
                                            text_item.metadata)]
    /\ UNCHANGED <<text_item, raw_output>>
    /\ UNCHANGED <<scoreVars, ingestVars, batchVars, gwVars, repairVars, processVars, dataVars, extractVars>>

-----------------------------------------------------------------------------
(* RedditDataProcessor.process_all *)

BATCH_SIZE == 10

\* items[a:b] of a Python list, a and b counted from 0
Slice(list, a, b) ==
    LET hi == IF b < Len(list) THEN b ELSE Len(list) IN
    IF a >= hi THEN <<>> ELSE SubSeq(list, a + 1, hi)

\* `if limit: items = items[:limit]`: a new list of the same objects
Limited(list, lim) == IF lim # 0 THEN Slice(list, 0, lim) ELSE list

\* what self.analyzer.analyze_batch(batch) may return: one result per item,
\* in the order of the items
analyze_batch(batch) ==
    {[k \in 1..Len(batch) |-> process_item(k, batch[k], outcomes[k]).result] :
        outcomes \in [1..Len(batch) -> GatewayOutcomes]}

\* item["analysis"] = result
SetAnalysis(item, result) ==
    [text |-> item.text, metadata |-> item.metadata, analysis |-> result]

\* process_all(items, limit) is called on a processor that has an analyzer
\* and has processed nothing yet
ProcessInit ==
    /\ \E list \in ItemLists :
         /\ objects = list
         /\ before = list
         /\ input_items = [k \in 1..Len(list) |-> k]
    /\ limit \in 0..MaxItems
    /\ processed_data = <<>>
    /\ batch_start = 0
    /\ process_pc = "loop"

ProcessIdle ==
    /\ objects = <<>> /\ before = <<>> /\ input_items = <<>> /\ limit = 0
    /\ processed_data = <<>> /\ batch_start = 0 /\ process_pc = "idle"

\* one iteration of `for i in range(0, len(items), batch_size)`
ProcessBatch ==
    /\ process_pc = "loop"
    /\ batch_start < Len(Limited(input_items, limit))
    /\ LET batch == Slice(Limited(input_items, limit), batch_start,
                          batch_start + BATCH_SIZE)
       IN \E analyses \in analyze_batch([k \in 1..Len(batch) |-> objects[batch[k]]]) :
            /\ objects' = [id \in DOMAIN objects |->
                             IF \E k \in 1..Len(batch) : batch[k] = id
                             THEN SetAnalysis(objects[id],
                                     analyses[CHOOSE k \in 1..Len(batch) : batch[k] = id])
                             ELSE objects[id]]
            /\ processed_data' = processed_data \o batch
    /\ batch_start' = batch_start + BATCH_SIZE
    /\ UNCHANGED <<input_items, limit, before, process_pc>>
    /\ UNCHANGED <<scoreVars, ingestVars, batchVars, gwVars, repairVars, analyzeVars,
                   dataVars, extractVars>>

\* the loop ends: `return self.processed_data`
ProcessReturn ==
    /\ process_pc = "loop"
    /\ batch_start >= Len(Limited(input_items, limit))
    /\ process_pc' = "returned"
    /\ UNCHANGED <<objects, input_items, limit, before, processed_data, batch_start>>
    /\ UNCHANGED <<scoreVars, ingestVars, batchVars, gwVars, repairVars, analyzeVars,
                   dataVars, extractVars>>

-----------------------------------------------------------------------------
(* RedditDataProcessor.calculate_field_distributions *)

LOW_CONFIDENCE_THRESHOLD == 30

\* a count, and the float (count / total) * 100 as the exact ratio of
\* count * 100 to total
Count(n) == [int |-> n]
Ratio(n, d) == [ratio |-> <<n, d>>]

\* d.get(key, default)
GetOr(d, key, default) == IF Has(d, key) THEN Get(d, key) ELSE default

\* item.get("analysis", {}).get("field_sentiments", {}).get(field, {})
field_data(item, field) ==
    GetOr(GetOr(GetOr(item, "analysis", Dict(<<>>)), "field_sentiments", Dict(<<>>)),
          field, Dict(<<>>))

\* `confidence >= LOW_CONFIDENCE_THRESHOLD`
Counted_at_threshold(data) == GetOr(data, "confidence", Num(0)).num >= LOW_CONFIDENCE_THRESHOLD

\* `confidence > LOW_CONFIDENCE_THRESHOLD`
Counted(data) == GetOr(data, "confidence", Num(0)).num > LOW_CONFIDENCE_THRESHOLD

\* sentiment_counts after the first n items: a Counter, sentiment -> count
RECURSIVE sentiment_counts(_, _, _)
sentiment_counts(data, field, n) ==
    IF n = 0 THEN <<>>
    ELSE LET counts == sentiment_counts(data, field, n - 1)
             entry == field_data(data[n], field)
             sentiment == GetOr(entry, "sentiment", Str("neutral")).str
         IN IF Counted(entry)
            THEN [s \in DOMAIN counts \cup {sentiment} |->
                    (IF s \in DOMAIN counts THEN counts[s] ELSE 0)
                    + (IF s = sentiment THEN 1 ELSE 0)]
            ELSE counts

\* total after the first n items
RECURSIVE total_counted(_, _, _)
total_counted(data, field, n) ==
    IF n = 0 THEN 0
    ELSE total_counted(data, field, n - 1)
         + (IF Counted(field_data(data[n], field)) THEN 1 ELSE 0)

\* distributions[field]
field_distribution(data, field) ==
    LET counts == sentiment_counts(data, field, Len(data))
        total == total_counted(data, field, Len(data))
    IN IF total > 0
       THEN Put(Dict([s \in DOMAIN counts |-> Ratio(counts[s] * 100, total)]),
                "total_mentions", Count(total))
       ELSE Dict([total_mentions |-> Count(0)])

calculate_field_distributions(data) ==
    Dict([field \in Fields |-> field_distribution(data, field)])

\* the field entries of a processed item: product_quality on either side of
\* the threshold, user_experience as a second field
QualityEntries ==
    {MkDict(f) : f \in [sentiment : {Absent, Str("positive"), Str("negative")},
                        confidence : {Absent, Num(30), Num(70), Num(80)}]}

ProcessedItems ==
    {Dict(<<>>)} \cup
    {Dict([analysis |-> Dict([field_sentiments |-> MkDict(f)])]) :
        f \in [product_quality : {Absent} \cup QualityEntries,
               user_experience : {Absent, Dict([sentiment |-> Str("negative"),
                                                confidence |-> Num(90)])}]}

ProcessedLists == UNION {[1..n -> ProcessedItems] : n \in 0..MaxProcessed}

DistributionInit ==
    /\ analysed \in ProcessedLists
    /\ distributions = NotCalled

DistributionIdle ==
    /\ analysed = <<>> /\ distributions = NotCalled

\* the call calculate_field_distributions()
CalculateFieldDistributions ==
    /\ distributions = NotCalled
    /\ distributions' = calculate_field_distributions(analysed)
    /\ UNCHANGED analysed
    /\ UNCHANGED <<scoreVars, ingestVars, batchVars, gwVars, repairVars, analyzeVars,
                   processVars, extractVars>>

-----------------------------------------------------------------------------
(* RedditDataProcessor.extract_posts_and_comments *)

\* A comment body is its length after strip() and whether it contains
\* "I am a bot"; a post's title and selftext are reduced to the text
\* f"{title} {selftext}".strip(), of length 0 when both are empty.
CommentBodies ==
    {[chars |-> 0, bot |-> FALSE], [chars |-> 20, bot |-> FALSE],
     [chars |-> 21, bot |-> FALSE], [chars |-> 21, bot |-> TRUE]}

RawComments == [id : {1, 3}, body : CommentBodies]

RawCommentLists == UNION {[1..n -> RawComments] : n \in 0..MaxComments}

RawPosts == [id : 1..2,
             text : {[chars |-> 0, bot |-> FALSE], [chars |-> 5, bot |-> FALSE]},
             comments : RawCommentLists]

\* `comment_text and len(comment_text) > 20 and "I am a bot" not in comment_text`
keeps_comment(body) == body.chars # 0 /\ body.chars > 20 /\ ~body.bot

\* the loop over post_data.get("comments", []) on the first n comments;
\* st is [ids, items]
RECURSIVE extract_comments(_, _, _, _)
extract_comments(st, post_id, comments, n) ==
    IF n = 0 THEN st
    ELSE LET before_n == extract_comments(st, post_id, comments, n - 1)
             comment == comments[n]
         IN IF comment.id \in before_n.ids
            THEN before_n
            ELSE [ids |-> before_n.ids \cup {comment.id},
                  items |-> IF keeps_comment(comment.body)
                            THEN Append(before_n.items,
                                        [text |-> comment.body,
                                         context |-> "comment", id |-> comment.id,
                                         post_id |-> post_id])
                            ELSE before_n.items]

\* the body of `for post_data in ...` without the `continue` of a seen post
extract_post_keep_comments(st, post_data) ==
    LET seen == post_data.id \in st.ids
        with_post ==
            [ids |-> st.ids \cup {post_data.id},
             items |-> IF ~seen /\ post_data.text.chars # 0
                       THEN Append(st.items, [text |-> post_data.text,
                                              context |-> "post", id |-> post_data.id,
                                              post_id |-> post_data.id])
                       ELSE st.items]
    IN extract_comments(with_post, post_data.id, post_data.comments,
                        Len(post_data.comments))

\* the body of `for post_data in self.raw_data.get("posts", [])`
extract_post(st, post_data) ==
    IF post_data.id \in st.ids
    THEN st
    ELSE LET with_post ==
                 [ids |-> st.ids \cup {post_data.id},
                  items |-> IF post_data.text.chars # 0
                            THEN Append(st.items, [text |-> post_data.text,
                                              context |-> "post", id |-> post_data.id,
                                                   post_id |-> post_data.id])
                            ELSE st.items]
         IN extract_comments(with_post, post_data.id, post_data.comments,
                             Len(post_data.comments))

\* extract_posts_and_comments on the first n posts of raw_data
RECURSIVE extract_posts_and_comments(_, _, _)
extract_posts_and_comments(ids, data, n) ==
    IF n = 0 THEN [ids |-> ids, items |-> <<>>]
    ELSE extract_post(extract_posts_and_comments(ids, data, n - 1), data[n])

ExtractInit ==
    /\ \E n \in 0..MaxRawPosts : raw_data \in [1..n -> RawPosts]
    /\ deduplicated_ids = {}
    /\ emitted = <<>>
    /\ extract_calls = 0

ExtractIdle ==
    /\ raw_data = <<>> /\ deduplicated_ids = {} /\ emitted = <<>>
    /\ extract_calls = MaxExtractCalls

\* one call of extract_posts_and_comments()
Extract ==
    /\ extract_calls < MaxExtractCalls
    /\ LET out == extract_posts_and_comments(deduplicated_ids, raw_data, Len(raw_data))
       IN /\ deduplicated_ids' = out.ids
          /\ emitted' = emitted \o out.items
    /\ extract_calls' = extract_calls + 1
    /\ UNCHANGED raw_data
    /\ UNCHANGED <<scoreVars, ingestVars, batchVars, gwVars, repairVars, analyzeVars,
                   processVars, dataVars>>

-----------------------------------------------------------------------------
(* Specifications *)

\* passes_quick_filter on every post of Posts
ScoreNext == Score
InitScore == ScoreInit /\ IngestIdle /\ BatchIdle /\ GatewayIdle /\ RepairIdle /\ AnalyzeIdle /\ ProcessIdle /\ DistributionIdle /\ ExtractIdle
SpecScore == InitScore /\ [][ScoreNext]_vars

\* run_quick_filter with any quick_filter callable and threshold
RouteNext == QuickFilterStep \/ QuickFilterReturn
InitRoute == ScoreIdle /\ RouteInit /\ BatchIdle /\ GatewayIdle /\ RepairIdle /\ AnalyzeIdle /\ ProcessIdle /\ DistributionIdle /\ ExtractIdle
SpecRoute == InitRoute /\ [][RouteNext]_vars

\* main(): the three stages with the default filter and threshold
IngestNext ==
    \/ QuickFilterStep
    \/ QuickFilterReturn
    \/ AutoAcceptStep
    \/ AutoAcceptReturn
    \/ LlmStep
    \/ LlmReturn
Init == ScoreIdle /\ IngestInit /\ BatchIdle /\ GatewayIdle /\ RepairIdle /\ AnalyzeIdle /\ ProcessIdle /\ DistributionIdle /\ ExtractIdle
SpecIngest == Init /\ [][IngestNext]_vars

\* analyze_batch
StartSome == \E i \in 1..Len(items) : StartTask(i)
ReturnsSome == \E i \in 1..Len(items) : GatewayReturns(i)
RaisesSome == \E i \in 1..Len(items) : GatewayRaises(i)
CollectSome == \E i \in 1..Len(items) : Collect(i)
BatchNext ==
    \/ ReturnEmpty
    \/ Submit
    \/ StartSome
    \/ ReturnsSome
    \/ RaisesSome
    \/ CollectSome
    \/ BatchReturn
InitBatch == ScoreIdle /\ IngestIdle /\ BatchInit /\ GatewayIdle /\ RepairIdle /\ AnalyzeIdle /\ ProcessIdle /\ DistributionIdle /\ ExtractIdle
SpecBatch == InitBatch /\ [][BatchNext]_vars

\* analyze_batch with fair workers and gateway calls that end
SpecBatchFair ==
    /\ SpecBatch
    /\ WF_vars(ReturnEmpty)
    /\ WF_vars(Submit)
    /\ WF_vars(StartSome)
    /\ WF_vars(ReturnsSome \/ RaisesSome)
    /\ WF_vars(CollectSome)
    /\ WF_vars(BatchReturn)

\* one call of a gateway
GatewayNext == GenerateAttempt \/ GeminiFilterAttempt \/ OpenAIFilterAttempt
InitGateway == ScoreIdle /\ IngestIdle /\ BatchIdle /\ GatewayInit /\ RepairIdle /\ AnalyzeIdle /\ ProcessIdle /\ DistributionIdle /\ ExtractIdle
SpecGateway == InitGateway /\ [][GatewayNext]_vars

\* _validate_and_fix_response on every value of RepairInputs
RepairNext == Repair \/ RepairAgain
InitRepair == ScoreIdle /\ IngestIdle /\ BatchIdle /\ GatewayIdle /\ RepairInit /\ AnalyzeIdle /\ ProcessIdle /\ DistributionIdle /\ ExtractIdle
SpecRepair == InitRepair /\ [][RepairNext]_vars

\* analyze_text on every text and gateway output
AnalyzeNext == AnalyzeText
InitAnalyze == ScoreIdle /\ IngestIdle /\ BatchIdle /\ GatewayIdle /\ RepairIdle /\ AnalyzeInit /\ ProcessIdle /\ DistributionIdle /\ ExtractIdle
SpecAnalyze == InitAnalyze /\ [][AnalyzeNext]_vars

\* process_all on every list of items
ProcessNext == ProcessBatch \/ ProcessReturn
InitProcess == ScoreIdle /\ IngestIdle /\ BatchIdle /\ GatewayIdle /\ RepairIdle /\ AnalyzeIdle /\ ProcessInit /\ DistributionIdle /\ ExtractIdle
SpecProcess == InitProcess /\ [][ProcessNext]_vars

\* calculate_field_distributions on every list of processed items
DistributionNext == CalculateFieldDistributions
InitDistribution == ScoreIdle /\ IngestIdle /\ BatchIdle /\ GatewayIdle /\ RepairIdle /\ AnalyzeIdle /\ ProcessIdle /\ DistributionInit /\ ExtractIdle
SpecDistribution == InitDistribution /\ [][DistributionNext]_vars

\* extract_posts_and_comments called again and again on one processor
ExtractNext == Extract
InitExtract == ScoreIdle /\ IngestIdle /\ BatchIdle /\ GatewayIdle /\ RepairIdle /\ AnalyzeIdle /\ ProcessIdle /\ DistributionIdle /\ ExtractInit
SpecExtract == InitExtract /\ [][ExtractNext]_vars

Next == IngestNext
Spec == SpecIngest

-----------------------------------------------------------------------------
(* Properties of run_quick_filter *)

\* how often post q is in the auto-accepted, resp. the needs-review bucket
TimesHigh(q) == Cardinality({k \in 1..Len(high_confidence) : high_confidence[k][1] = q})
TimesLlm(q) == Cardinality({k \in 1..Len(needs_llm) : needs_llm[k] = q})
InputPosts == {posts[i] : i \in 1..Len(posts)}

\* C1: run_quick_filter places every input post in exactly one bucket: each
\* post is appended once to high_confidence, or once to needs_llm, or
\* neither and then counted in rejected; the three sizes add up to the
\* number of input posts and the buckets hold input posts only.
C1_ExactlyOneBucket ==
    stage \in {"filter", "auto"} =>
        /\ rejected + Len(high_confidence) + Len(needs_llm) = Len(posts)
        /\ \A i \in 1..Len(posts) : TimesHigh(posts[i]) + TimesLlm(posts[i]) <= 1
        /\ rejected = Cardinality({i \in 1..Len(posts) :
                                     TimesHigh(posts[i]) + TimesLlm(posts[i]) = 0})
        /\ \A k \in 1..Len(high_confidence) : high_confidence[k][1] \in InputPosts
        /\ \A k \in 1..Len(needs_llm) : needs_llm[k] \in InputPosts

\* run_quick_filter has returned with one post in each bucket
C1_Witness ==
    /\ stage = "auto"
    /\ Len(posts) = 3
    /\ rejected = 1 /\ Len(high_confidence) = 1 /\ Len(needs_llm) = 1

\* C2: a post is routed by its score alone: accept = false is rejected
\* whatever the confidence, accept = true with confidence >= threshold is
\* auto-accepted and paired with its reason, accept = true with confidence
\* below the threshold needs review.
C2_RoutedByScore ==
    stage \in {"filter", "auto"} =>
        /\ \A i \in 1..Len(posts) :
             LET q == posts[i]
                 sc == scores[i]
             IN IF ~sc.accept
                THEN TimesHigh(q) = 0 /\ TimesLlm(q) = 0
                ELSE IF sc.confidence >= threshold
                THEN /\ \E k \in 1..Len(high_confidence) :
                            high_confidence[k] = <<q, sc.reason>>
                     /\ TimesLlm(q) = 0
                ELSE TimesLlm(q) = 1 /\ TimesHigh(q) = 0
        /\ rejected = Cardinality({i \in 1..Len(posts) : ~scores[i].accept})

\* with the default filter and threshold 0.8: 0.85 auto-accepted, 0.65 in
\* needs-review, 0.0 rejected
C2_Witness ==
    /\ stage = "auto"
    /\ quick_filter = "default"
    /\ threshold = 80
    /\ \E i, j, k \in 1..Len(posts) :
         /\ scores[i].confidence = 85 /\ TimesHigh(posts[i]) = 1
         /\ scores[j].confidence = 65 /\ TimesLlm(posts[j]) = 1
         /\ scores[k].confidence = 0 /\ TimesHigh(posts[k]) + TimesLlm(posts[k]) = 0
         /\ rejected = 1

-----------------------------------------------------------------------------
(* Properties of passes_quick_filter *)

Scored == verdict # NoVerdict

\* the post's lowercased title and body, word by word
PostWords == Lower(post.title) \o Lower(post.selftext)
HasBrand == In(<<"taboola">>, PostWords)
HasGeneric == \E i \in 1..Len(generic_phrases) : In(generic_phrases[i], PostWords)
HasStrong == \E i \in 1..Len(strong_indicators) : In(strong_indicators[i], PostWords)
TermsPresent == Cardinality({i \in 1..Len(relevant_terms) : In(relevant_terms[i], PostWords)})
SubAllowed == LowerWord(post.subreddit) \in relevant_subs
LongContent == StrLen(post.title) + 1 + StrLen(post.selftext) > 150

\* C3 as claimed: every item that matches a generic phrase is rejected with
\* confidence 0.1.
C3_GenericAlwaysTenth ==
    (Scored /\ HasGeneric) => (~verdict.accept /\ verdict.confidence = 10)

\* C3: every item that contains the brand token and matches a generic phrase
\* is rejected with confidence 0.1, also when a strong indicator or relevant
\* terms are present.
C3_GenericBeforeStrong ==
    (Scored /\ HasBrand /\ HasGeneric) =>
        /\ ~verdict.accept
        /\ verdict.confidence = 10
        /\ verdict.reason.text = "Generic phrase"

\* a scored item with the brand, a generic phrase and a strong indicator
C3_Witness ==
    /\ Scored /\ HasBrand /\ HasGeneric /\ HasStrong
    /\ verdict.confidence = 10

\* C4: an item without the brand token is rejected with confidence 0.0
\* whatever else it holds.
C4_NoBrandRejected ==
    (Scored /\ ~HasBrand) =>
        /\ ~verdict.accept
        /\ verdict.confidence = 0
        /\ verdict.reason.text = "No Taboola mention"

\* a scored item without the brand, with a generic phrase, a relevant term,
\* an allow-listed subreddit and long content
C4_Witness ==
    /\ Scored /\ ~HasBrand
    /\ HasGeneric /\ TermsPresent >= 1 /\ SubAllowed /\ LongContent
    /\ verdict.confidence = 0

\* C5: with the brand and no generic phrase the verdict is that of the first
\* rule that matches: strong indicator 0.95; else >= 3 relevant terms 0.85,
\* exactly 2 0.65, exactly 1 0.45; else allow-listed subreddit 0.6; else
\* content longer than 150 0.4; else reject 0.2.
C5_Ladder ==
    (Scored /\ HasBrand /\ ~HasGeneric) =>
        /\ HasStrong => (verdict.accept /\ verdict.confidence = 95)
        /\ (~HasStrong /\ TermsPresent >= 3) =>
               (verdict.accept /\ verdict.confidence = 85)
        /\ (~HasStrong /\ TermsPresent = 2) =>
               (verdict.accept /\ verdict.confidence = 65)
        /\ (~HasStrong /\ TermsPresent = 1) =>
               (verdict.accept /\ verdict.confidence = 45)
        /\ (~HasStrong /\ TermsPresent = 0 /\ SubAllowed) =>
               (verdict.accept /\ verdict.confidence = 60)
        /\ (~HasStrong /\ TermsPresent = 0 /\ ~SubAllowed /\ LongContent) =>
               (verdict.accept /\ verdict.confidence = 40)
        /\ (~HasStrong /\ TermsPresent = 0 /\ ~SubAllowed /\ ~LongContent) =>
               (~verdict.accept /\ verdict.confidence = 20)

\* two relevant terms win over an allow-listed subreddit and long content
C5_Witness ==
    /\ Scored /\ HasBrand /\ ~HasGeneric /\ ~HasStrong
    /\ TermsPresent = 2 /\ SubAllowed /\ LongContent
    /\ verdict.confidence = 65

-----------------------------------------------------------------------------
(* Properties of the ingestion pipeline *)

HighIds == {high_confidence[k][1].id : k \in 1..Len(high_confidence)}
LlmIds == {needs_llm[k].id : k \in 1..Len(needs_llm)}
CalledIds == {llm_calls[k] : k \in 1..Len(llm_calls)}
AutoPayloads(list, q) ==
    {k \in 1..Len(list) :
        /\ list[k].post = q
        /\ "filter_auto_accepted" \in DOMAIN list[k].llm_filter
        /\ list[k].llm_filter.filter_auto_accepted}

\* C6: the LLM callable is invoked only for posts of the needs-review
\* bucket, never for an auto-accepted post; once stage 2 has returned,
\* posts_payload holds exactly one payload per auto-accepted post, tagged
\* filter_auto_accepted = true; a post scored 0.95 at threshold 0.8 is
\* auto-accepted and never sent to the LLM.
C6_AutoAcceptBypassesLlm ==
    /\ CalledIds \subseteq LlmIds
    /\ CalledIds \cap HighIds = {}
    /\ stage \in {"llm", "done"} =>
         /\ \A k \in 1..Len(high_confidence) :
              Cardinality(AutoPayloads(posts_payload, high_confidence[k][1])) = 1
         /\ Cardinality({k \in 1..Len(posts_payload) :
                            "filter_auto_accepted" \in DOMAIN posts_payload[k].llm_filter})
              = Len(high_confidence)
    /\ \A i \in 1..Len(posts) :
         scores[i].confidence = 95 =>
             /\ posts[i].id \in HighIds
             /\ posts[i].id \notin CalledIds

\* the pipeline is done, a strong-indicator post was auto-accepted and
\* another post went through the LLM
C6_Witness ==
    /\ stage = "done"
    /\ \E i \in 1..Len(posts) :
         /\ scores[i].confidence = 95
         /\ Cardinality(AutoPayloads(posts_payload, posts[i])) = 1
    /\ Len(llm_calls) >= 1
    /\ Len(posts_payload) >= 2

-----------------------------------------------------------------------------
(* Properties of analyze_batch *)

\* the result analyze_text computes for item i when the gateway answers
\* with a JSON object, or is not called because the text is blank
OwnResult(i) ==
    IF Blank(items[i].text)
    THEN [overall_sentiment |-> "neutral", language |-> "unknown",
          reasoning |-> "Empty or invalid text", metadata |-> items[i].metadata]
    ELSE [overall_sentiment |-> "positive", language |-> "en",
          reasoning |-> "Analysis completed", metadata |-> items[i].metadata]

\* C7: analyze_batch returns a list as long as items whose position i holds
\* the result computed for items[i], whatever the order of completion.
C7_OrderPreserved ==
    batch_pc = "returned" =>
        /\ Len(returned) = Len(items)
        /\ \A i \in 1..Len(items) :
             /\ future[i].index = i
             /\ returned[i] = future[i].result
             /\ returned[i].metadata \in {<<>>, items[i].metadata}

\* three items came back in reverse order of submission
C7_Witness ==
    /\ batch_pc = "returned"
    /\ Len(items) = 3
    /\ collected = <<3, 2, 1>>
    /\ \A i \in 1..3 : returned[i].metadata = <<i>>

\* C8: the batch never raises; an item whose gateway call raised, or whose
\* gateway output does not parse, gets the canonical empty result, every
\* other item its own result, none is dropped.
C8_FailuresContained ==
    /\ batch_pc # "raised"
    /\ batch_pc = "returned" =>
         /\ Len(returned) = Len(items)
         /\ \A i \in 1..Len(items) :
              /\ calls[i] \in {"raises", "malformed"} =>
                     returned[i] = _get_empty_response
              /\ calls[i] \in {"object", "none"} => returned[i] = OwnResult(i)

\* [A, B, C] with B failing: [result(A), default(B), result(C)]
C8_Witness ==
    /\ batch_pc = "returned"
    /\ Len(items) = 3
    /\ calls = <<"object", "raises", "object">>
    /\ returned[1] = OwnResult(1) /\ returned[1].metadata = <<1>>
    /\ returned[2] = _get_empty_response
    /\ returned[3] = OwnResult(3) /\ returned[3].metadata = <<3>>

\* C9: with fair workers and gateway calls that end, analyze_batch
\* eventually returns, with one result per input item.
C9_BatchReturns == <>(batch_pc = "returned" /\ Len(returned) = Len(items))

\* a batch of three whose every gateway call raised has returned
C9_Witness ==
    /\ batch_pc = "returned"
    /\ Len(items) = 3
    /\ \A i \in 1..3 : calls[i] = "raises"
    /\ Len(returned) = 3

-----------------------------------------------------------------------------
(* Properties of the gateways *)

NonRetryable == Statuses \ ({"200"} \cup retryable_status)

\* C10: in every gateway a response with a non-retryable status ends the
\* call at once: the error is raised after that attempt, no sleep follows
\* and no further request is sent.
C10_NonRetryableFailsAtOnce ==
    \A k \in 1..Len(requests) :
        requests[k] \in NonRetryable =>
            /\ k = Len(requests)
            /\ outcome = "raised"
            /\ \A j \in 1..Len(sleeps) : sleeps[j].after < k

\* GeminiClient.generate met a 400, slept retry_delay and sent a second request
C10_RetriedAfter400 ==
    /\ gateway = "GeminiClient.generate"
    /\ Len(requests) >= 2
    /\ requests[1] = "400"
    /\ Len(sleeps) >= 1
    /\ sleeps[1] = [after |-> 1, seconds |-> RETRY_DELAY]


\* the attempts failed so far all failed with a timeout or a retryable status
Transient == retryable_status \cup {"timeout"}
AllTransient == \A k \in 1..Len(requests) : requests[k] \in Transient

\* C11: one gateway call sends at most max_retries requests, one per
\* attempt; when every attempt fails with a timeout or a retryable status
\* the call never returns a value, raises only after exactly max_retries
\* attempts, the error describes the last failure, and no sleep follows the
\* final failed attempt.
C11_AtMostMaxRetries ==
    gateway \in Gateways =>
        /\ Len(requests) <= max_retries(gateway)
        /\ Len(requests) = attempt + (IF outcome = "pending" THEN 0 ELSE 1)
        /\ AllTransient =>
             /\ outcome # "returned"
             /\ outcome = "raised" <=> Len(requests) = max_retries(gateway)
             /\ outcome = "raised" => error = requests[Len(requests)]
             /\ \A j \in 1..Len(sleeps) : sleeps[j].after < max_retries(gateway)

\* call_openai_filter has used its three attempts on a 503, a timeout and a
\* 429 and raised, having slept after the first two only
C11_Witness ==
    /\ gateway = "call_openai_filter"
    /\ requests = <<"503", "timeout", "429">>
    /\ outcome = "raised" /\ error = "429"
    /\ Len(sleeps) = 2


-----------------------------------------------------------------------------
(* Properties of _validate_and_fix_response *)

Repaired == repaired # NotCalled
IsStr(x) == DOMAIN x = {"str"}
IsNum(x) == DOMAIN x = {"num"}

\* a field record with a valid sentiment, a confidence in [0, 1] and a
\* key_phrases sequence
ValidField(fs) ==
    /\ IsDict(fs)
    /\ Has(fs, "sentiment") /\ InCategories(Get(fs, "sentiment"))
    /\ Has(fs, "confidence") /\ IsNum(Get(fs, "confidence"))
    /\ Get(fs, "confidence").num \in 0..100
    /\ Has(fs, "key_phrases") /\ IsList(Get(fs, "key_phrases"))

\* a fully valid AnalysisResult
ValidResult(r) ==
    /\ IsDict(r)
    /\ Has(r, "overall_sentiment") /\ InCategories(Get(r, "overall_sentiment"))
    /\ Has(r, "field_sentiments") /\ IsDict(Get(r, "field_sentiments"))
    /\ \A f \in Fields :
         /\ Has(Get(r, "field_sentiments"), f)
         /\ ValidField(Get(Get(r, "field_sentiments"), f))
    /\ Has(r, "edge_cases") /\ IsDict(Get(r, "edge_cases"))
    /\ {"is_sarcastic", "has_mixed_sentiment", "is_non_english", "language", "is_spam"}
          \subseteq DOMAIN Get(r, "edge_cases").dict
    /\ Has(r, "themes") /\ IsList(Get(r, "themes"))
    /\ Has(r, "reasoning") /\ IsStr(Get(r, "reasoning"))

\* C12: _validate_and_fix_response returns, for any input, a fully valid
\* AnalysisResult: a category as overall_sentiment, every canonical field
\* with a valid sentiment, a confidence in [0, 1] and a key_phrases
\* sequence, edge_cases a mapping with the five flags, themes a sequence and
\* reasoning a string.
C12_RepairedIsValid == Repaired => ValidResult(repaired)

\* a confidence that is a string came through the repair untouched
C12_StringConfidenceKept ==
    /\ Repaired
    /\ IsDict(response) /\ Has(response, "field_sentiments")
    /\ Has(repaired, "field_sentiments")
    /\ Has(Get(repaired, "field_sentiments"), "product_quality")
    /\ Has(Get(Get(repaired, "field_sentiments"), "product_quality"), "confidence")
    /\ Get(Get(Get(repaired, "field_sentiments"), "product_quality"), "confidence")
          = Str("high")

\* C14: for every input that is not a mapping, _validate_and_fix_response
\* returns what it returns for the empty mapping.
C14_NonMappingAsEmptyMapping ==
    (Repaired /\ ~IsDict(response)) =>
        repaired = _validate_and_fix_response(Dict(<<>>))

\* a list holding a mapping was repaired into that mapping's repair
C14_ListSalvaged ==
    /\ Repaired
    /\ response = List(<<Dict([overall_sentiment |-> Str("negative")])>>)
    /\ Get(repaired, "overall_sentiment") = Str("negative")

\* C15: repair is idempotent: repairing a repaired value returns it unchanged.
C15_Idempotent == again # NotCalled => again = repaired

\* a mapping with a field_sentiments list, an invalid overall_sentiment and
\* no themes has been repaired twice
C15_Witness ==
    /\ again # NotCalled
    /\ IsDict(response)
    /\ Has(response, "field_sentiments") /\ IsList(Get(response, "field_sentiments"))
    /\ Len(Get(response, "field_sentiments").list) = 2
    /\ Has(response, "overall_sentiment") /\ ~InCategories(Get(response, "overall_sentiment"))
    /\ ~Has(response, "themes")
    /\ repaired # response

\* C16: the repair of the empty mapping has exactly the canonical fields,
\* each with confidence 0.0, overall_sentiment neutral, and has edge_cases
\* and themes.
C16_EmptyMapping ==
    (Repaired /\ response = Dict(<<>>)) =>
        /\ Get(repaired, "overall_sentiment") = Str("neutral")
        /\ DOMAIN Get(repaired, "field_sentiments").dict = Fields
        /\ Cardinality(DOMAIN Get(repaired, "field_sentiments").dict) = Len(ANALYSIS_FIELDS)
        /\ \A f \in Fields :
             Get(Get(Get(repaired, "field_sentiments"), f), "confidence") = Num(0)
        /\ Has(repaired, "edge_cases")
        /\ Has(repaired, "themes")

\* the empty mapping has been repaired
C16_Witness == Repaired /\ response = Dict(<<>>) /\ ValidResult(repaired)


\* the field_sentiments handed in, as the repair normalizes it, and the
\* repaired one
GivenFields ==
    Normalize(IF Has(response, "field_sentiments")
              THEN Get(response, "field_sentiments") ELSE Dict(<<>>))
RepairedFields == Get(repaired, "field_sentiments")

\* what the repair owes a canonical field f
FieldBackfilled(f) ==
    LET out == Get(RepairedFields, f) IN
    IF ~Has(GivenFields, f) \/ ~IsDict(Get(GivenFields, f))
    THEN out = NeutralField
    ELSE LET given == Get(GivenFields, f) IN
         /\ IsDict(out)
         /\ DOMAIN out.dict = DOMAIN given.dict \cup {"sentiment", "confidence", "key_phrases"}
         /\ Get(out, "sentiment") =
               (IF Has(given, "sentiment") /\ InCategories(Get(given, "sentiment"))
                THEN Get(given, "sentiment") ELSE Str("neutral"))
         /\ Get(out, "confidence") =
               (IF Has(given, "confidence") THEN Get(given, "confidence") ELSE Num(0))
         /\ Get(out, "key_phrases") =
               (IF Has(given, "key_phrases") THEN Get(given, "key_phrases") ELSE List(<<>>))

\* C17 as claimed: for every mapping input the repaired field_sentiments has
\* exactly len(ANALYSIS_FIELDS) entries, one per canonical field, each
\* synthesized or backfilled.
C17_ExactlyCanonicalFields ==
    (Repaired /\ IsDict(response)) =>
        /\ Cardinality(DOMAIN RepairedFields.dict) = Len(ANALYSIS_FIELDS)
        /\ DOMAIN RepairedFields.dict = Fields
        /\ \A f \in Fields : FieldBackfilled(f)

\* C17: for every mapping input the repaired field_sentiments has an entry
\* for every canonical field, and no entry beyond those and the ones the
\* input's field_sentiments mapping already had (so exactly
\* len(ANALYSIS_FIELDS) entries when it named canonical fields only); a
\* missing canonical field is synthesized as neutral / 0.0 / [], a present
\* one keeps its valid sentiment, its confidence and its key_phrases and
\* gets neutral, 0.0 and [] for an invalid sentiment and missing sub-keys.
C17_EveryCanonicalField ==
    (Repaired /\ IsDict(response)) =>
        /\ IsDict(RepairedFields)
        /\ DOMAIN RepairedFields.dict = Fields \cup DOMAIN GivenFields.dict
        /\ DOMAIN GivenFields.dict \subseteq Fields =>
               Cardinality(DOMAIN RepairedFields.dict) = Len(ANALYSIS_FIELDS)
        /\ \A f \in Fields : FieldBackfilled(f)

\* product_quality came with an invalid sentiment, a confidence and no
\* key_phrases, user_experience complete, the four other fields missing
C17_Witness ==
    /\ Repaired /\ IsDict(response)
    /\ Has(response, "field_sentiments") /\ IsDict(Get(response, "field_sentiments"))
    /\ DOMAIN GivenFields.dict = {"product_quality", "user_experience"}
    /\ Get(GivenFields, "product_quality") =
          Dict([sentiment |-> Str("great"), confidence |-> Num(80)])
    /\ Get(RepairedFields, "product_quality") =
          Dict([sentiment |-> Str("neutral"), confidence |-> Num(80),
                key_phrases |-> List(<<>>)])
    /\ Get(RepairedFields, "user_experience") = GoodField
    /\ Get(RepairedFields, "advertiser_value") = NeutralField

\* C18: after repair themes is a sequence of at most 3 entries: empty when
\* the input's themes is absent or not a sequence, the first 3 entries of a
\* longer sequence.
C18_ThemesAtMostThree ==
    (Repaired /\ IsDict(response)) =>
        /\ IsList(Get(repaired, "themes"))
        /\ Len(Get(repaired, "themes").list) <= 3
        /\ (~Has(response, "themes") \/ ~IsList(Get(response, "themes"))) =>
               Get(repaired, "themes") = List(<<>>)
        /\ (Has(response, "themes") /\ IsList(Get(response, "themes"))) =>
               Get(repaired, "themes").list =
                   SubSeq(Get(response, "themes").list, 1,
                          IF Len(Get(response, "themes").list) < 3
                          THEN Len(Get(response, "themes").list) ELSE 3)

\* a themes sequence of four entries came through the repair whole
C18_FourThemesKept ==
    /\ Repaired /\ IsDict(response)
    /\ Has(response, "themes") /\ IsList(Get(response, "themes"))
    /\ Len(Get(repaired, "themes").list) = 4


-----------------------------------------------------------------------------
(* Properties of analyze_text *)

\* C13: whatever value the gateway returns, malformed or not, analyze_text
\* does not raise and returns a valid AnalysisResult.
C13_MalformedOutputAbsorbed ==
    (analyzed # NotCalled /\ raw_output # GenerateRaises) =>
        /\ ~analyzed.raised
        /\ Has(analyzed.result, "overall_sentiment")
        /\ InCategories(Get(analyzed.result, "overall_sentiment"))

\* analyze_text raised on a gateway output that is an empty JSON array
C13_RaisedOnJsonArray ==
    /\ analyzed # NotCalled
    /\ text_item.text = "A"
    /\ raw_output = List(<<>>)
    /\ analyzed.raised


-----------------------------------------------------------------------------
(* Properties of the pipelines when the credential is missing *)

\* the item of llm_results is the default result carrying the error text
DefaultWithError(result) ==
    /\ "error" \in DOMAIN result
    /\ ~result.is_relevant
    /\ result.relevance_score = 0

\* C19: when the credential is missing the ingestion pipeline does no batch
\* work: no post is routed into a bucket, no post is handed to the LLM
\* callable, no per-item default result is produced, and the run does not
\* complete as if nothing had happened.
C19_MissingCredentialIsFatal ==
    ~api_key =>
        /\ posts = <<>>
        /\ high_confidence = <<>> /\ needs_llm = <<>> /\ rejected = 0
        /\ llm_calls = <<>>
        /\ llm_results = <<>>
        /\ stage # "done"

\* the run completed without the credential: posts were routed, the callable
\* was invoked for every needs-review post, and each failure became a
\* per-item default result
C19_RunCompletedWithoutCredential ==
    /\ ~api_key
    /\ stage = "done"
    /\ needs_llm # <<>>
    /\ Len(llm_calls) = Len(needs_llm)
    /\ Len(llm_results) = Len(needs_llm)
    /\ \A i \in 1..Len(llm_results) : DefaultWithError(llm_results[i])


-----------------------------------------------------------------------------
(* Properties of process_all *)

\* the objects process_all was given, after `items[:limit]`
Processed == Limited(input_items, limit)

\* C20: process_all does not mutate its input: when it has returned, every
\* item dict the caller passed is what it was at the call, and the records
\* of the returned list are none of the caller's objects.
C20_InputItemsUnchanged ==
    process_pc = "returned" =>
        /\ \A k \in 1..Len(input_items) : objects[input_items[k]] = before[input_items[k]]
        /\ \A k \in 1..Len(processed_data) :
              \A j \in 1..Len(input_items) : processed_data[k] # input_items[j]

\* process_all has returned on a non-empty list: every processed item dict
\* has gained the key "analysis", and the returned list holds the caller's
\* own objects
C20_InputItemMutatedInPlace ==
    /\ process_pc = "returned"
    /\ Processed # <<>>
    /\ processed_data = Processed
    /\ \A k \in 1..Len(Processed) :
          /\ "analysis" \in DOMAIN objects[Processed[k]]
          /\ "analysis" \notin DOMAIN before[Processed[k]]


-----------------------------------------------------------------------------
(* Properties of the observer callbacks of run_quick_filter *)

\* run_quick_filter on the first n posts seen so far, with the callbacks `given`
RECURSIVE RouteAll(_, _)
RouteAll(n, given) ==
    IF n = 0
    THEN [high_confidence |-> <<>>, needs_llm |-> <<>>, rejected |-> 0,
          callbacks |-> <<>>, supplied |-> given]
    ELSE route(RouteAll(n - 1, given), posts[n], scores[n], threshold)

\* the callback of the bucket post i was filed in
BucketCallback(i) ==
    IF \E k \in 1..Len(high_confidence) : high_confidence[k][1].id = i
    THEN "on_auto_accept"
    ELSE IF \E k \in 1..Len(needs_llm) : needs_llm[k].id = i
    THEN "on_needs_llm"
    ELSE "on_reject"

\* the callbacks invoked for post i
InvokedFor(i) ==
    {k \in 1..Len(callbacks) :
        callbacks[k].id = i /\ callbacks[k].name \in QuickFilterCallbacks}

\* C21: the observer callbacks of run_quick_filter do not affect the routing:
\* the three results are those of the same posts and threshold routed with
\* no callback supplied; and for each post the only callback invoked is the
\* one of the bucket it lands in, once when the caller supplied it.
C21_CallbacksDoNotAffectRouting ==
    LET omitted == RouteAll(Len(posts), {}) IN
    /\ high_confidence = omitted.high_confidence
    /\ needs_llm = omitted.needs_llm
    /\ rejected = omitted.rejected
    /\ omitted.callbacks = <<>>
    /\ \A i \in 1..Len(posts) :
          /\ \A k \in InvokedFor(i) : callbacks[k].name = BucketCallback(i)
          /\ Cardinality(InvokedFor(i)) =
                IF BucketCallback(i) \in supplied THEN 1 ELSE 0

\* all three callbacks were supplied, every post had one invoked, and each
\* bucket received a post
C21_Witness ==
    /\ stage = "auto"
    /\ supplied = QuickFilterCallbacks
    /\ Len(posts) = 3
    /\ Len(callbacks) = 3
    /\ high_confidence # <<>> /\ needs_llm # <<>> /\ rejected = 1


-----------------------------------------------------------------------------
(* Properties of calculate_field_distributions *)

\* the processed items that have an entry for the field with a confidence
\* strictly greater than 0.3
Qualifying(field) ==
    {k \in 1..Len(analysed) :
        /\ Has(analysed[k], "analysis")
        /\ Has(Get(analysed[k], "analysis"), "field_sentiments")
        /\ Has(Get(Get(analysed[k], "analysis"), "field_sentiments"), field)
        /\ LET entry == Get(Get(Get(analysed[k], "analysis"), "field_sentiments"), field)
           IN Has(entry, "confidence") /\ Get(entry, "confidence").num > 30}

\* those of them with the sentiment s; an entry without a sentiment counts
\* as neutral
WithSentiment(field, s) ==
    {k \in Qualifying(field) :
        LET entry == Get(Get(Get(analysed[k], "analysis"), "field_sentiments"), field)
        IN IF Has(entry, "sentiment") THEN Get(entry, "sentiment") = Str(s)
           ELSE s = "neutral"}

\* the sum of the percentages of a distribution over the first n categories,
\* as a numerator over total_mentions
RECURSIVE SumOfPercentages(_, _)
SumOfPercentages(d, n) ==
    IF n = 0 THEN 0
    ELSE SumOfPercentages(d, n - 1)
         + (IF Has(d, SENTIMENT_CATEGORIES[n])
            THEN Get(d, SENTIMENT_CATEGORIES[n]).ratio[1] ELSE 0)

\* two items both positive on product_quality at confidence 0.8 and 0.7
TwoPositive ==
    <<Dict([analysis |-> Dict([field_sentiments |-> Dict([product_quality |->
          Dict([sentiment |-> Str("positive"), confidence |-> Num(80)])])])]),
      Dict([analysis |-> Dict([field_sentiments |-> Dict([product_quality |->
          Dict([sentiment |-> Str("positive"), confidence |-> Num(70)])])])])>>

\* C22: calculate_field_distributions counts, for each field, only the
\* entries whose confidence is strictly greater than 0.3: total_mentions is
\* their number, each sentiment's percentage is 100 * its count /
\* total_mentions, the percentages sum to 100 when total_mentions > 0, and a
\* field with no qualifying entry yields only total_mentions = 0.  Two items
\* positive on product_quality at 0.8 and 0.7 give positive 100.0 and
\* total_mentions 2.
C22_DistributionOfQualifyingEntries ==
    distributions # NotCalled =>
        /\ \A field \in Fields :
              LET d == Get(distributions, field)
                  total == Cardinality(Qualifying(field))
                  sentiments == DOMAIN d.dict \ {"total_mentions"}
              IN /\ Get(d, "total_mentions") = Count(total)
                 /\ total = 0 => sentiments = {}
                 /\ sentiments = {s \in {"positive", "neutral", "negative", "mixed"} :
                                     WithSentiment(field, s) # {}}
                 /\ \A s \in sentiments :
                       Get(d, s) = Ratio(100 * Cardinality(WithSentiment(field, s)), total)
                 /\ total > 0 => SumOfPercentages(d, Len(SENTIMENT_CATEGORIES)) = 100 * total
        /\ analysed = TwoPositive =>
              Get(distributions, "product_quality") =
                  Dict([positive |-> Ratio(200, 2), total_mentions |-> Count(2)])

\* a distribution was computed where one product_quality entry sits exactly
\* at 0.3 and another above it: one mention is counted
C22_Witness ==
    /\ distributions # NotCalled
    /\ Len(analysed) = 2
    /\ field_data(analysed[1], "product_quality") =
          Dict([sentiment |-> Str("positive"), confidence |-> Num(30)])
    /\ field_data(analysed[2], "product_quality") =
          Dict([sentiment |-> Str("negative"), confidence |-> Num(80)])
    /\ Get(distributions, "product_quality") =
          Dict([negative |-> Ratio(100, 1), total_mentions |-> Count(1)])


-----------------------------------------------------------------------------
(* Properties of extract_posts_and_comments *)

\* the raw post at position k is the first of raw_data with its id
FirstWithId(k) == \A j \in 1..(k - 1) : raw_data[j].id # raw_data[k].id

\* C23: extract_posts_and_comments deduplicates by id: over the calls made
\* on one processor no id is emitted twice; a post whose id was already
\* seen is skipped together with all of its comments, so every emitted
\* comment is a comment of the first post with its post id; and no emitted
\* comment is empty, at most 20 characters long, or contains "I am a bot".
C23_DeduplicatedById ==
    /\ \A i, j \in 1..Len(emitted) : i # j => emitted[i].id # emitted[j].id
    /\ \A i \in 1..Len(emitted) :
          /\ emitted[i].context = "post" =>
                \E k \in 1..Len(raw_data) :
                    /\ raw_data[k].id = emitted[i].id
                    /\ FirstWithId(k)
          /\ emitted[i].context = "comment" =>
                /\ emitted[i].text.chars > 20
                /\ ~emitted[i].text.bot
                /\ \E k \in 1..Len(raw_data) :
                      /\ raw_data[k].id = emitted[i].post_id
                      /\ FirstWithId(k)
                      /\ \E m \in 1..Len(raw_data[k].comments) :
                            /\ raw_data[k].comments[m].id = emitted[i].id
                            /\ raw_data[k].comments[m].body = emitted[i].text

\* two calls were made on data holding the same post id twice, the second
\* time with a long comment of its own: one post and nothing else was emitted
C23_Witness ==
    /\ extract_calls = 2
    /\ Len(raw_data) = 2
    /\ raw_data[1].id = raw_data[2].id
    /\ raw_data[1].text.chars # 0
    /\ raw_data[1].comments = <<>>
    /\ Len(raw_data[2].comments) = 1
    /\ raw_data[2].comments[1] = [id |-> 3, body |-> [chars |-> 21, bot |-> FALSE]]
    /\ Len(emitted) = 1
    /\ emitted[1].context = "post"


-----------------------------------------------------------------------------
(* Properties of the backoff of the gateways *)

RECURSIVE Pow2(_)
Pow2(k) == IF k = 0 THEN 1 ELSE 2 * Pow2(k - 1)

\* the delay after k doublings, capped where the loop has a max_delay
Backoff(g, k) ==
    IF g = "GeminiClient.generate"
    THEN initial_delay(g) * Pow2(k)
    ELSE Min(initial_delay(g) * Pow2(k), max_delay(g))

\* C24: in each gateway retry loop, while every attempt meets a timeout or
\* a retryable status, the sleeps of the call are the doubling backoff: the
\* k-th sleep, counted from 0, lasts min(initial_delay * 2^k, max_delay).
C24_SleepsDouble ==
    (gateway \in Gateways /\ AllTransient) =>
        \A k \in 1..Len(sleeps) : sleeps[k].seconds = Backoff(gateway, k - 1)

\* GeminiClient.generate has met two retryable failures and slept the same
\* delay after each
C24_GenerateSleepsConstantDelay ==
    /\ gateway = "GeminiClient.generate"
    /\ AllTransient
    /\ Len(requests) = 2
    /\ Len(sleeps) = 2
    /\ sleeps[1].seconds = RETRY_DELAY
    /\ sleeps[2].seconds = RETRY_DELAY


-----------------------------------------------------------------------------
(* Properties of the result slots of analyze_batch *)

\* C25: in analyze_batch every slot of the pre-sized results list is written
\* at most once at any time, a written slot holds the result of the item of
\* the same index, and when the batch returns every slot has been written
\* exactly once.
C25_SlotsWrittenOnce ==
    \A i \in 1..Len(items) :
        /\ writes[i] <= 1
        /\ writes[i] = 1 => (future[i].index = i /\ results[i] = future[i].result)
        /\ writes[i] = 0 => results[i] = None
        /\ batch_pc = "returned" => writes[i] = 1

\* a batch of three returned after its futures completed out of order, and
\* each slot was written once
C25_Witness ==
    /\ batch_pc = "returned"
    /\ Len(items) = 3
    /\ collected = <<2, 3, 1>>
    /\ \A i \in 1..3 : writes[i] = 1 /\ results[i].metadata = <<i>>


-----------------------------------------------------------------------------
(* Properties of the submission loop of analyze_batch *)

\* a worker is inside its gateway call
Blocked(i) == task[i] = "running"

\* C26: the submission loop of analyze_batch is paced by the fixed delay
\* alone: item i + 1 is submitted one LLM_REQUEST_DELAY after item i, nothing
\* is slept after the last submission, and the next submission is never held
\* back by what the workers are doing.
C26_PacedByFixedDelayOnly ==
    /\ \A i \in 1..submitted : submit_at[i] = (i - 1) * LLM_REQUEST_DELAY
    /\ (submitted = Len(items) /\ Len(items) > 0) =>
           paused = (Len(items) - 1) * LLM_REQUEST_DELAY
    /\ (batch_pc = "submit" /\ submitted < Len(items)) => ENABLED Submit

\* the third item was submitted two delays after the first while the workers
\* of the first two items were still inside their gateway calls
C26_Witness ==
    /\ Len(items) = 3
    /\ submitted = 3
    /\ Blocked(1) /\ Blocked(2)
    /\ submit_at[3] = 2 * LLM_REQUEST_DELAY
    /\ paused = 2 * LLM_REQUEST_DELAY


-----------------------------------------------------------------------------
(* Properties of process_posts_with_llm *)

\* the payloads process_posts_with_llm has built, before and after main()
\* extends posts_payload with them
LlmPayloads ==
    IF stage = "done"
    THEN SelectSeq(posts_payload,
                   LAMBDA pl : "filter_auto_accepted" \notin DOMAIN pl.llm_filter)
    ELSE payloads

\* how often the callback `name` was invoked for the post at position idx
Invocations(name, idx) ==
    Cardinality({k \in 1..Len(callbacks) :
                    callbacks[k] = [name |-> name, id |-> needs_llm[idx].id]})

PayloadsOf(idx) ==
    Cardinality({k \in 1..Len(LlmPayloads) : LlmPayloads[k].post = needs_llm[idx]})

\* the place in llm_results of the post at position idx, which did not raise
Rank(idx) == Cardinality({q \in 1..idx : q \notin raised})

\* C27: in process_posts_with_llm a per-post exception follows the caller's
\* mode.  With suppress_exceptions an exception at post i invokes
\* on_exception once for it, adds no payload for it, and the loop goes on:
\* every other post has the payload its own LLM result gives it.  Without
\* suppress_exceptions the exception propagates and no later post is
\* processed.
C27_ExceptionsFollowMode ==
    stage \in {"llm", "done", "failed"} =>
        /\ suppress_exceptions =>
              /\ stage # "failed"
              /\ \A idx \in 1..Len(needs_llm) :
                    /\ idx \in raised =>
                          (Invocations("on_exception", idx) = 1 /\ PayloadsOf(idx) = 0)
                    /\ (idx < cursor /\ idx \notin raised) =>
                          /\ Invocations("on_exception", idx) = 0
                          /\ PayloadsOf(idx) =
                                IF is_relevant_llm_result(llm_results[Rank(idx)])
                                THEN 1 ELSE 0
                    /\ stage = "done" => Invocations("on_post_start", idx) = 1
        /\ ~suppress_exceptions =>
              /\ \A idx \in 1..Len(needs_llm) : Invocations("on_exception", idx) = 0
              /\ stage = "done" => raised = {}
              /\ raised # {} =>
                    /\ stage = "failed"
                    /\ raised = {cursor}
                    /\ \A idx \in 1..Len(needs_llm) :
                          Invocations("on_post_start", idx) = IF idx <= cursor THEN 1 ELSE 0
                    /\ Len(llm_results) = cursor - 1

\* with suppress_exceptions the second of three posts raised and the run
\* finished with the payloads of the first and the third
C27_Witness ==
    /\ suppress_exceptions
    /\ stage = "done"
    /\ Len(needs_llm) = 3
    /\ raised = {2}
    /\ Invocations("on_exception", 2) = 1
    /\ PayloadsOf(1) = 1 /\ PayloadsOf(2) = 0 /\ PayloadsOf(3) = 1


-----------------------------------------------------------------------------
(* Properties of run_llm_filter *)

\* the position in needs_llm of the post llm_results[k] belongs to
PositionOf(k) == CHOOSE idx \in 1..Len(needs_llm) : idx \notin raised /\ Rank(idx) = k

\* C28: run_llm_filter never raises on an LLM failure: when llm_callable
\* raises it returns (False, result) with is_relevant = False,
\* mentions_taboola = False, relevance_score = 0.0 and an error field, and the
\* post is in no payload; a post is reported relevant, and gets a payload,
\* only when is_relevant and mentions_taboola are true and relevance_score
\* >= llm_min_relevance_score.
C28_LlmFailureIsNotRelevant ==
    /\ run_llm_filter(LlmRaises)[1] = FALSE
    /\ \A k \in 1..Len(llm_results) :
          LET r == llm_results[k] IN
          /\ "error" \in DOMAIN r =>
                /\ ~r.is_relevant /\ ~r.mentions_taboola /\ r.relevance_score = 0
                /\ PayloadsOf(PositionOf(k)) = 0
          /\ PayloadsOf(PositionOf(k)) = 1 <=>
                (r.is_relevant /\ r.mentions_taboola
                 /\ r.relevance_score >= LLM_MIN_RELEVANCE_SCORE)
          /\ PayloadsOf(PositionOf(k)) <= 1
    /\ stage \in {"llm", "done"} =>
          Len(llm_results) = Cardinality({idx \in 1..(cursor - 1) : idx \notin raised})

\* the LLM call of the first post failed and that of the second succeeded
\* as relevant: the run finished with a payload for the second one only
C28_Witness ==
    /\ stage = "done"
    /\ raised = {}
    /\ Len(llm_results) = 2
    /\ "error" \in DOMAIN llm_results[1]
    /\ "error" \notin DOMAIN llm_results[2]
    /\ PayloadsOf(1) = 0
    /\ PayloadsOf(2) = 1


-----------------------------------------------------------------------------
(* Properties of the rate-limit pauses of process_posts_with_llm *)

\* the positions after which a pause is due among the posts processed so far
PauseDue ==
    {idx \in 1..Len(needs_llm) :
        /\ idx < cursor
        /\ idx % rate_limit_every = 0
        /\ idx < Len(needs_llm)
        /\ idx \notin raised}

\* C29: with rate_limit_every = k > 0 a rate-limit pause is taken after the
\* post at position idx exactly when idx is a multiple of k, idx < total and
\* the post did not raise a suppressed exception: no pause follows the last
\* post, at most floor((total - 1) / k) pauses are taken, each with one
\* on_rate_limit_pause callback.
C29_PausesEveryKth ==
    (stage \in {"llm", "done", "failed"} /\ rate_limit_every > 0) =>
        /\ {pauses[j] : j \in 1..Len(pauses)} = PauseDue
        /\ Len(pauses) = Cardinality(PauseDue)
        /\ \A j \in 1..Len(pauses) : pauses[j] # Len(needs_llm)
        /\ Len(needs_llm) > 0 =>
              Len(pauses) <= (Len(needs_llm) - 1) \div rate_limit_every
        /\ \A idx \in 1..Len(needs_llm) :
              Invocations("on_rate_limit_pause", idx) = IF idx \in PauseDue THEN 1 ELSE 0

\* three posts at rate_limit_every = 2: one pause, after the second post
C29_Witness ==
    /\ stage = "done"
    /\ rate_limit_every = 2
    /\ Len(needs_llm) = 3
    /\ pauses = <<2>>
    /\ Invocations("on_rate_limit_pause", 2) = 1


-----------------------------------------------------------------------------
(* Properties of analyze_text on blank input *)

\* the items whose text is empty or only whitespace
BlankItems == {i \in 1..Len(items) : items[i].text \in {"", " "}}

\* the items for which llm_client.generate was called
GatewayCalls == {i \in 1..Len(items) : calls[i] # "none"}

\* C30: analyze_text never invokes the gateway for blank input: an item
\* whose text is empty or only whitespace never has a worker inside the
\* gateway call and gets the canonical empty result, reasoning "Empty or
\* invalid text", with its metadata when it has some; when analyze_batch
\* returns, generate has been called once for each item with a non-blank
\* text and for no other.
C30_BlankNeverReachesGateway ==
    /\ \A i \in BlankItems :
          /\ task[i] # "running"
          /\ calls[i] = "none"
          /\ task[i] \in {"finished", "collected"} =>
                /\ future[i].result.reasoning = "Empty or invalid text"
                /\ future[i].result.overall_sentiment = "neutral"
                /\ future[i].result.metadata = items[i].metadata
    /\ GatewayCalls \cap BlankItems = {}
    /\ batch_pc = "returned" =>
          /\ GatewayCalls = (1..Len(items)) \ BlankItems
          /\ \A i \in BlankItems : returned[i].reasoning = "Empty or invalid text"

\* a batch of an empty text, a whitespace text and a real one returned after
\* one gateway call
C30_Witness ==
    /\ batch_pc = "returned"
    /\ Len(items) = 3
    /\ items[1].text = "" /\ items[2].text = " " /\ items[3].text = "A"
    /\ items[2].metadata = <<2>>
    /\ GatewayCalls = {3}
    /\ returned[2].metadata = <<2>>

=============================================================================
